---- MODULE Spec2Model ----
(***************************************************************************)
(* A model of the monero-rs key, address, network, hash and RingCT code:   *)
(*   src/src/network.rs, src/src/util/address.rs, src/src/util/key.rs,     *)
(*   src/src/cryptonote/hash.rs, src/src/util/ringct.rs.                   *)
(*                                                                         *)
(* Byte strings are sequences of 0..255 with the widths of the code (32    *)
(* byte keys, 8 byte payment ids, 69 / 77 byte addresses).  The external   *)
(* crates are modelled by what they compute, at a reduced size: the        *)
(* Edwards curve -x^2 + y^2 = 1 + d x^2 y^2 over the field of FieldP       *)
(* elements with a base point of prime order GroupOrder (curve25519-dalek),*)
(* a polynomial digest (keccak-hash) and the Monero block base58 codec     *)
(* (base58-monero).  Rust indexes from 0 and its ranges exclude the upper  *)
(* end; TLA+ sequences index from 1, so bytes[a..b] is SubSeq(b, a+1, b).  *)
(***************************************************************************)
EXTENDS Integers, Sequences, FiniteSets, TLC

VARIABLES
    addr,   \* the Address under test
    bytes,  \* the byte string last produced by as_bytes or handed to a decoder
    text,   \* the base58 text last produced by to_string or handed to from_str
    how,    \* how the decoder's input was derived from the address's encoding
    op,     \* the operation applied last
    net,    \* the network handed to AddressType::from_slice
    ret,    \* the value the last operation returned
    key,    \* the key held by the caller: a PrivateKey, a PublicKey or none yet
    kcall,  \* the last key operation and its operands
    kret,   \* the value the last key operation returned
    rct,    \* the RingCT value under test: an RctType, RctSigBase or RctSigPrunable
    rctx,   \* the context of the RingCT call: type, inputs, outputs, mixin
    rbuf,   \* the bytes last written by a RingCT encoder or handed to a decoder
    rhow,   \* how the RingCT decoder's input was derived from the encoding
    rop,    \* the RingCT operation applied last
    rret    \* the value the last RingCT operation returned

vars == <<addr, bytes, text, how, op, net, ret, key, kcall, kret,
          rct, rctx, rbuf, rhow, rop, rret>>
avars == <<addr, bytes, text, how, op, net, ret>>
kvars == <<key, kcall, kret>>
rvars == <<rct, rctx, rbuf, rhow, rop, rret>>

(***************************************************************************)
(* Results: Result<T, E> and the abort of an out-of-range index.           *)
(***************************************************************************)
NoVal == <<>>
NoErr == [kind |-> "none", inner |-> "none"]
Ok(v) == [tag |-> "Ok", val |-> v, err |-> NoErr]
Err(e) == [tag |-> "Err", val |-> NoVal, err |-> e]
Panic == [tag |-> "Panic", val |-> NoVal, err |-> NoErr]
NoRet == [tag |-> "None", val |-> NoVal, err |-> NoErr]
IsOk(r) == r.tag = "Ok"
IsErr(r) == r.tag = "Err"
IsPanic(r) == r.tag = "Panic"
ErrKind(k) == [kind |-> k, inner |-> "none"]
ErrWrap(k, e) == [kind |-> k, inner |-> e.kind]

(***************************************************************************)
(* Bytes and slices.                                                       *)
(***************************************************************************)
Byte == 0..255
KeyLen == 32
PaymentIdLen == 8
ChecksumLen == 4

Zeros(n) == [i \in 1..n |-> 0]
\* &bytes[lo..hi]: aborts when hi exceeds the length
SliceOk(b, lo, hi) == lo <= hi /\ hi <= Len(b)
Slice(b, lo, hi) == SubSeq(b, lo + 1, hi)

\* little-endian value of a byte string modulo m (Horner from the top byte)
RECURSIVE LEMod(_, _)
LEMod(b, m) ==
    IF b = <<>> THEN 0
    ELSE (LEMod(Tail(b), m) * 256 + Head(b)) % m

\* a byte string holds a little-endian value below m (m <= 256)
LEBelow(b, m) ==
    /\ b # <<>>
    /\ b[1] < m
    /\ \A i \in 2..Len(b) : b[i] = 0

\* the n byte little-endian form of v < 256
LEBytes(v, n) == [i \in 1..n |-> IF i = 1 THEN v ELSE 0]

Pow2(k) == 2 ^ k
BitOf(v, k) == (v \div Pow2(k)) % 2
FlipBitOfByte(v, k) == IF BitOf(v, k) = 1 THEN v - Pow2(k) ELSE v + Pow2(k)
\* flip bit number i (0-based, 8 bits per byte) of a byte string
FlipBit(b, i) ==
    [j \in 1..Len(b) |-> IF j = (i \div 8) + 1 THEN FlipBitOfByte(b[j], i % 8) ELSE b[j]]

(***************************************************************************)
(* curve25519-dalek at reduced size: field arithmetic modulo FieldP, the   *)
(* twisted Edwards curve with coefficient EdwardsD, scalars modulo         *)
(* GroupOrder.  Points are pairs <<x, y>>; NoPoint is a failed             *)
(* decompression.                                                          *)
(***************************************************************************)
FieldP == 17
EdwardsD == 10
GroupOrder == 5
BasepointX == 10
BasepointY == 2
Basepoint == <<BasepointX, BasepointY>>
Identity == <<0, 1>>
NoPoint == <<>>

FMod(a) == a % FieldP
FInv(a) == CHOOSE z \in 0..(FieldP - 1) : (a * z) % FieldP = 1

\* CompressedEdwardsY::decompress: y is the low 255 bits reduced modulo the
\* field prime, x the root of (y^2 - 1) / (d y^2 + 1) whose low bit is bit 255
Decompress(b) ==
    LET top == b[KeyLen] % 128
        y == LEMod([i \in 1..KeyLen |-> IF i = KeyLen THEN top ELSE b[i]], FieldP)
        sign == b[KeyLen] \div 128
        u == FMod(y * y + FieldP - 1)
        v == FMod(EdwardsD * y * y + 1)
        xs == {x \in 0..(FieldP - 1) : FMod(v * x * x) = u}
    IN IF xs = {} THEN NoPoint
       ELSE LET x0 == CHOOSE x \in xs : x % 2 = 0
            IN <<IF sign = 1 THEN FMod(FieldP - x0) ELSE x0, y>>

\* EdwardsPoint::compress: y little-endian, the low bit of x in bit 255
Compress(pt) ==
    [i \in 1..KeyLen |->
        IF i = 1 THEN pt[2]
        ELSE IF i = KeyLen THEN 128 * (pt[1] % 2)
        ELSE 0]

\* the unified addition law of the twisted Edwards curve (a = -1)
PointAdd(p, q) ==
    LET t == FMod(EdwardsD * FMod(p[1] * q[1]) * FMod(p[2] * q[2]))
    IN <<FMod(FMod(p[1] * q[2] + q[1] * p[2]) * FInv(FMod(1 + t))),
         FMod(FMod(p[2] * q[2] + p[1] * q[1]) * FInv(FMod(1 + FieldP - t)))>>
PointNeg(p) == <<FMod(FieldP - p[1]), p[2]>>
PointSub(p, q) == PointAdd(p, PointNeg(q))
RECURSIVE PointMulInt(_, _)
PointMulInt(k, p) == IF k = 0 THEN Identity ELSE PointAdd(PointMulInt(k - 1, p), p)

\* Scalar: 32 bytes.  ScalarValue is the little-endian value modulo the group
\* order, which is what the arithmetic of the crate computes with.
ScalarValue(s) == LEMod(s, GroupOrder)
ScalarOf(v) == LEBytes(v % GroupOrder, KeyLen)
\* Scalar::from_canonical_bytes: None unless the value is below the group order
IsCanonicalScalar(b) == LEBelow(b, GroupOrder)
\* Scalar::from_bytes_mod_order
Scalar_from_bytes_mod_order(b) == ScalarOf(LEMod(b, GroupOrder))
ScalarAdd(a, b) == ScalarOf(ScalarValue(a) + ScalarValue(b))
ScalarMul(a, b) == ScalarOf(ScalarValue(a) * ScalarValue(b))
\* scalar * point
PointMul(s, p) == PointMulInt(ScalarValue(s), p)

(***************************************************************************)
(* keccak-hash at reduced size: a polynomial digest of the input, spread   *)
(* over 32 bytes.  Two inputs of one length that differ in one byte have   *)
(* different digests (HashQ is prime and exceeds 256).                     *)
(***************************************************************************)
HashLen == 32
HashQ == 46337
HashB == 257
\* HashB^k modulo HashQ
RECURSIVE HashPow(_)
HashPow(k) ==
    IF k = 0 THEN 1
    ELSE LET half == HashPow(k \div 2)
         IN (((half * half) % HashQ) * (IF k % 2 = 1 THEN HashB ELSE 1)) % HashQ
\* sum of (b[i] + 1) * HashB^(hi - i) for i in lo..hi, modulo HashQ
RECURSIVE Absorb(_, _, _)
Absorb(b, lo, hi) ==
    IF lo > hi THEN 0
    ELSE IF lo = hi THEN b[lo] + 1
    ELSE LET mid == (lo + hi) \div 2
         IN (Absorb(b, lo, mid) * HashPow(hi - mid) + Absorb(b, mid + 1, hi)) % HashQ
keccak_256(b) ==
    LET h == (HashPow(Len(b)) + Absorb(b, 1, Len(b))) % HashQ
    IN [i \in 1..HashLen |->
          IF i = 1 THEN h % 256
          ELSE IF i = 2 THEN h \div 256
          ELSE (h * i + i) % 256]

(***************************************************************************)
(* network.rs: the networks and the magic byte of an address.              *)
(***************************************************************************)
Network == {"Mainnet", "Stagenet", "Testnet"}
AddressKind == {"Standard", "Integrated", "SubAddress"}

\* AddressType: the kind, and the payment id of an Integrated address
Standard == [kind |-> "Standard", payment_id |-> <<>>]
SubAddress == [kind |-> "SubAddress", payment_id |-> <<>>]
Integrated(pid) == [kind |-> "Integrated", payment_id |-> pid]

\* Network::as_u8 with the Integrated and SubAddress bytes of Testnet exchanged
Network_as_u8_Swapped(n, addr_type) ==
    CASE n = "Mainnet" ->
           (CASE addr_type.kind = "Standard" -> 18
              [] addr_type.kind = "Integrated" -> 19
              [] addr_type.kind = "SubAddress" -> 42)
      [] n = "Testnet" ->
           (CASE addr_type.kind = "Standard" -> 53
              [] addr_type.kind = "Integrated" -> 63
              [] addr_type.kind = "SubAddress" -> 54)
      [] n = "Stagenet" ->
           (CASE addr_type.kind = "Standard" -> 24
              [] addr_type.kind = "Integrated" -> 25
              [] addr_type.kind = "SubAddress" -> 36)

Network_as_u8(n, addr_type) ==
    CASE n = "Mainnet" ->
           (CASE addr_type.kind = "Standard" -> 18
              [] addr_type.kind = "Integrated" -> 19
              [] addr_type.kind = "SubAddress" -> 42)
      [] n = "Testnet" ->
           (CASE addr_type.kind = "Standard" -> 53
              [] addr_type.kind = "Integrated" -> 54
              [] addr_type.kind = "SubAddress" -> 63)
      [] n = "Stagenet" ->
           (CASE addr_type.kind = "Standard" -> 24
              [] addr_type.kind = "Integrated" -> 25
              [] addr_type.kind = "SubAddress" -> 36)

\* Network::from_u8 with a default network for a byte of no network
Network_from_u8_Default(byte) ==
    IF byte \in {53, 54, 63} THEN Ok("Testnet")
    ELSE IF byte \in {24, 25, 36} THEN Ok("Stagenet")
    ELSE Ok("Mainnet")

Network_from_u8(byte) ==
    IF byte \in {18, 19, 42} THEN Ok("Mainnet")
    ELSE IF byte \in {53, 54, 63} THEN Ok("Testnet")
    ELSE IF byte \in {24, 25, 36} THEN Ok("Stagenet")
    ELSE Err(ErrKind("InvalidMagicByte"))

(***************************************************************************)
(* util/key.rs: private and public keys.                                   *)
(***************************************************************************)
PrivateKey(scalar) == [scalar |-> scalar]
PublicKey(point) == [point |-> point]

\* PrivateKey::from_slice that reduces the bytes instead of rejecting them
PrivateKey_from_slice_ModOrder(data) ==
    IF Len(data) # KeyLen THEN Err(ErrKind("InvalidLength"))
    ELSE Ok(PrivateKey(Scalar_from_bytes_mod_order(data)))

PrivateKey_from_slice(data) ==
    IF Len(data) # KeyLen THEN Err(ErrKind("InvalidLength"))
    ELSE IF ~IsCanonicalScalar(data) THEN Err(ErrKind("NotCanonicalScalar"))
    ELSE Ok(PrivateKey(data))

PrivateKey_from_scalar(scalar) == PrivateKey(scalar)

PublicKey_from_slice(data) ==
    IF Len(data) # KeyLen THEN Err(ErrKind("InvalidLength"))
    ELSE IF Decompress(data) = NoPoint THEN Err(ErrKind("InvalidPoint"))
    ELSE Ok(PublicKey(data))

PublicKey_from_private_key(privkey) ==
    PublicKey(Compress(PointMul(privkey.scalar, Basepoint)))

\* struct KeyPair: the private view key and the private spend key
KeyPair(view, spend) == [view |-> view, spend |-> spend]
\* struct ViewPair: the private view key and the public spend key
ViewPair(view, spend) == [view |-> view, spend |-> spend]
\* impl From<KeyPair> for ViewPair, impl From<&KeyPair> for ViewPair
ViewPair_from(k) ==
    LET spend == PublicKey_from_private_key(k.spend)
    IN ViewPair(k.view, spend)

\* PublicKey::point: Ok(point), or the abort of expect() on a failed decompression
PublicKey_point(pubkey) ==
    IF Decompress(pubkey.point) = NoPoint THEN Panic
    ELSE Ok(Decompress(pubkey.point))

\* the sum of two private keys computed as their product
PrivateKey_add_Mul(a, b) == PrivateKey(ScalarMul(a.scalar, b.scalar))

\* impl Add<PrivateKey> for PrivateKey
PrivateKey_add(a, b) == PrivateKey(ScalarAdd(a.scalar, b.scalar))

\* impl Mul<u8> for PrivateKey: the u8 becomes a Scalar
PrivateKey_mul_u8(a, other) == PrivateKey(ScalarMul(a.scalar, LEBytes(other, KeyLen)))

\* impl Mul<PrivateKey> for PrivateKey
PrivateKey_mul(a, b) == PrivateKey(ScalarMul(a.scalar, b.scalar))

\* impl Mul<&PublicKey> for PrivateKey
PrivateKey_mul_point(a, other) ==
    IF IsPanic(PublicKey_point(other)) THEN Panic
    ELSE Ok(PublicKey(Compress(PointMul(a.scalar, PublicKey_point(other).val))))

\* impl Add<PublicKey> for PublicKey
PublicKey_add(a, other) ==
    IF IsPanic(PublicKey_point(a)) \/ IsPanic(PublicKey_point(other)) THEN Panic
    ELSE Ok(PublicKey(Compress(
             PointAdd(PublicKey_point(a).val, PublicKey_point(other).val))))

\* impl Sub<PublicKey> for PublicKey
PublicKey_sub(a, other) ==
    IF IsPanic(PublicKey_point(a)) \/ IsPanic(PublicKey_point(other)) THEN Panic
    ELSE Ok(PublicKey(Compress(
             PointSub(PublicKey_point(a).val, PublicKey_point(other).val))))

\* impl Mul<&PrivateKey> for PublicKey
PublicKey_mul(a, other) ==
    IF IsPanic(PublicKey_point(a)) THEN Panic
    ELSE Ok(PublicKey(Compress(PointMul(other.scalar, PublicKey_point(a).val))))

\* the hex crate: text is a sequence of hex digits 0..15, NotAHexDigit any
\* other character
NotAHexDigit == 16
hex_encode(b) ==
    [i \in 1..(2 * Len(b)) |->
        IF i % 2 = 1 THEN b[(i + 1) \div 2] \div 16 ELSE b[i \div 2] % 16]
hex_decode(s) ==
    IF Len(s) % 2 = 1 THEN Err(ErrKind("OddLength"))
    ELSE IF \E i \in 1..Len(s) : s[i] = NotAHexDigit
    THEN Err(ErrKind("InvalidHexCharacter"))
    ELSE Ok([i \in 1..(Len(s) \div 2) |-> 16 * s[2 * i - 1] + s[2 * i]])

\* impl FromStr for PrivateKey
PrivateKey_from_str(s) ==
    LET decoded == hex_decode(s)
    IN IF ~IsOk(decoded) THEN Err(ErrWrap("Hex", decoded.err))
       ELSE PrivateKey_from_slice(decoded.val)

\* impl FromStr for PublicKey
PublicKey_from_str(s) ==
    LET decoded == hex_decode(s)
    IN IF ~IsOk(decoded) THEN Err(ErrWrap("Hex", decoded.err))
       ELSE PublicKey_from_slice(decoded.val)

\* Decodable for [u8; 32]: the next 32 bytes of the cursor, or the error of
\* an exhausted cursor
decode_array32(d) ==
    IF Len(d) < KeyLen THEN Err(ErrKind("Io")) ELSE Ok(SubSeq(d, 1, KeyLen))

\* impl Decodable for PrivateKey
PrivateKey_consensus_decode(d) ==
    LET array == decode_array32(d)
    IN IF ~IsOk(array) THEN array
       ELSE LET k == PrivateKey_from_slice(array.val)
            IN IF ~IsOk(k) THEN Err(ErrWrap("Key", k.err)) ELSE k

\* impl Decodable for PublicKey
PublicKey_consensus_decode(d) ==
    LET array == decode_array32(d)
    IN IF ~IsOk(array) THEN array
       ELSE LET k == PublicKey_from_slice(array.val)
            IN IF ~IsOk(k) THEN Err(ErrWrap("Key", k.err)) ELSE k

\* Hash::hash (cryptonote/hash.rs)
Hash_hash(input) == keccak_256(input)

\* as_scalar that takes the digest for a scalar as it is
Hash_as_scalar_Unreduced(hash) == PrivateKey_from_scalar(hash)

\* Hash::as_scalar (cryptonote/hash.rs)
Hash_as_scalar(hash) == PrivateKey_from_scalar(Scalar_from_bytes_mod_order(hash))

\* Hash::hash_to_scalar
Hash_hash_to_scalar(input) == Hash_as_scalar(Hash_hash(input))

\* impl Hashable for PublicKey: hash()
PublicKey_hash(pubkey) == Hash_hash(pubkey.point)

\* Hashable::hash_to_scalar, the default method, on an object whose hash() is
\* object_hash
Hashable_hash_to_scalar(object_hash) == Hash_as_scalar(object_hash)

(***************************************************************************)
(* util/address.rs                                                         *)
(***************************************************************************)
Address(n, t, spend, view) ==
    [network |-> n, addr_type |-> t, public_spend |-> spend, public_view |-> view]

\* AddressType::from_slice
AddressType_from_slice(b, n) ==
    IF ~SliceOk(b, 0, 1) THEN Panic
    ELSE LET byte == b[1]
             integrated == IF ~SliceOk(b, 65, 73) THEN Panic
                           ELSE Ok(Integrated(Slice(b, 65, 73)))
         IN CASE n = "Mainnet" ->
                   (IF byte = 18 THEN Ok(Standard)
                    ELSE IF byte = 19 THEN integrated
                    ELSE IF byte = 42 THEN Ok(SubAddress)
                    ELSE Err(ErrKind("InvalidMagicByte")))
              [] n = "Testnet" ->
                   (IF byte = 53 THEN Ok(Standard)
                    ELSE IF byte = 54 THEN integrated
                    ELSE IF byte = 63 THEN Ok(SubAddress)
                    ELSE Err(ErrKind("InvalidMagicByte")))
              [] n = "Stagenet" ->
                   (IF byte = 24 THEN Ok(Standard)
                    ELSE IF byte = 25 THEN integrated
                    ELSE IF byte = 36 THEN Ok(SubAddress)
                    ELSE Err(ErrKind("InvalidMagicByte")))

\* the checksum comparison that takes every address for a 69 byte one
CheckedAddress_Payload65(b, n, t, spend, view) ==
    IF ~SliceOk(b, 65, 65 + ChecksumLen) THEN Panic
    ELSE IF Slice(keccak_256(Slice(b, 0, 65)), 0, ChecksumLen)
              # Slice(b, 65, 65 + ChecksumLen)
         THEN Err(ErrKind("InvalidChecksum"))
    ELSE Ok(Address(n, t, spend, view))

\* Address::from_viewpair with the two keys of the address exchanged
Address_from_viewpair_Swapped(network, keys) ==
    LET public_view == PublicKey_from_private_key(keys.view)
    IN Address(network, Standard, public_view, keys.spend)

\* Address::from_viewpair
Address_from_viewpair(network, keys) ==
    LET public_view == PublicKey_from_private_key(keys.view)
    IN Address(network, Standard, keys.spend, public_view)

\* Address::from_keypair
Address_from_keypair(network, keys) ==
    LET public_spend == PublicKey_from_private_key(keys.spend)
        public_view == PublicKey_from_private_key(keys.view)
    IN Address(network, Standard, public_spend, public_view)

\* the checksum comparison at the end of Address::from_bytes
CheckedAddress(b, n, t, spend, view) ==
    LET payload == IF t.kind = "Integrated" THEN 73 ELSE 65
    IN IF ~SliceOk(b, payload, payload + ChecksumLen) THEN Panic
       ELSE IF Slice(keccak_256(Slice(b, 0, payload)), 0, ChecksumLen)
                 # Slice(b, payload, payload + ChecksumLen)
            THEN Err(ErrKind("InvalidChecksum"))
       ELSE Ok(Address(n, t, spend, view))

\* Address::from_bytes
Address_from_bytes(b) ==
    IF ~SliceOk(b, 0, 1) THEN Panic
    ELSE LET network == Network_from_u8(b[1])
         IN IF ~IsOk(network) THEN Err(ErrWrap("Network", network.err))
    ELSE LET addr_type == AddressType_from_slice(b, network.val)
         IN IF ~IsOk(addr_type) THEN addr_type
    ELSE IF ~SliceOk(b, 1, 33) THEN Panic
    ELSE LET public_spend == PublicKey_from_slice(Slice(b, 1, 33))
         IN IF ~IsOk(public_spend) THEN Err(ErrKind("InvalidFormat"))
    ELSE IF ~SliceOk(b, 33, 65) THEN Panic
    ELSE LET public_view == PublicKey_from_slice(Slice(b, 33, 65))
         IN IF ~IsOk(public_view) THEN Err(ErrKind("InvalidFormat"))
    ELSE CheckedAddress(b, network.val, addr_type.val, public_spend.val, public_view.val)

\* Address::as_bytes that writes the view key before the spend key
Address_as_bytes_ViewFirst(a) ==
    LET payload == <<Network_as_u8(a.network, a.addr_type)>>
                     \o a.public_view.point
                     \o a.public_spend.point
                     \o (IF a.addr_type.kind = "Integrated"
                         THEN a.addr_type.payment_id ELSE <<>>)
    IN payload \o Slice(keccak_256(payload), 0, ChecksumLen)

\* Address::as_bytes
Address_as_bytes(a) ==
    LET payload == <<Network_as_u8(a.network, a.addr_type)>>
                     \o a.public_spend.point
                     \o a.public_view.point
                     \o (IF a.addr_type.kind = "Integrated"
                         THEN a.addr_type.payment_id ELSE <<>>)
    IN payload \o Slice(keccak_256(payload), 0, ChecksumLen)

(***************************************************************************)
(* base58-monero: text is a sequence of symbols, 0..57 the digits of the   *)
(* alphabet in order and NotASymbol any character outside it.  Bytes are   *)
(* converted in blocks of 8 bytes to 11 digits, big-endian; a last block   *)
(* of n < 8 bytes takes EncodedBlockSizes[n + 1] digits.  Block values     *)
(* exceed 32 bit integers, so they are kept as byte strings.               *)
(***************************************************************************)
Base58Radix == 58
NotASymbol == 58
FullBlockSize == 8
FullEncodedBlockSize == 11
EncodedBlockSizes == <<0, 2, 3, 5, 6, 7, 9, 10, 11>>

\* big-endian byte string divided by the radix: [q |-> quotient, r |-> remainder]
RECURSIVE DivRadix(_, _, _)
DivRadix(bs, rem, acc) ==
    IF bs = <<>> THEN [q |-> acc, r |-> rem]
    ELSE LET cur == rem * 256 + Head(bs)
         IN DivRadix(Tail(bs), cur % Base58Radix, Append(acc, cur \div Base58Radix))

\* the n low digits of a big-endian byte string, most significant first
RECURSIVE BlockDigits(_, _)
BlockDigits(bs, n) ==
    IF n = 0 THEN <<>>
    ELSE LET dm == DivRadix(bs, 0, <<>>)
         IN Append(BlockDigits(dm.q, n - 1), dm.r)

encode_block(data) == BlockDigits(data, EncodedBlockSizes[Len(data) + 1])

RECURSIVE base58_encode(_)
base58_encode(data) ==
    IF data = <<>> THEN <<>>
    ELSE IF Len(data) <= FullBlockSize THEN encode_block(data)
    ELSE encode_block(SubSeq(data, 1, FullBlockSize))
           \o base58_encode(SubSeq(data, FullBlockSize + 1, Len(data)))

\* big-endian byte string times the radix plus a digit, from the low end;
\* the top carry is dropped by the caller's width (9 bytes hold 58^11)
RECURSIVE MulAddRadix(_, _)
MulAddRadix(bs, carry) ==
    IF bs = <<>> THEN <<>>
    ELSE LET cur == bs[Len(bs)] * Base58Radix + carry
         IN Append(MulAddRadix(SubSeq(bs, 1, Len(bs) - 1), cur \div 256), cur % 256)

RECURSIVE DigitsValue(_, _)
DigitsValue(acc, digits) ==
    IF digits = <<>> THEN acc
    ELSE DigitsValue(MulAddRadix(acc, Head(digits)), Tail(digits))

\* decode_block: the bytes of one block, or the error
decode_block(chars) ==
    IF \A n \in 1..FullBlockSize : EncodedBlockSizes[n + 1] # Len(chars)
    THEN Err(ErrKind("InvalidBlockSize"))
    ELSE IF \E i \in 1..Len(chars) : chars[i] = NotASymbol
    THEN Err(ErrKind("InvalidSymbol"))
    ELSE LET size == CHOOSE n \in 1..FullBlockSize : EncodedBlockSizes[n + 1] = Len(chars)
             value == DigitsValue(Zeros(FullBlockSize + 1), chars)
         IN IF \E i \in 1..(FullBlockSize + 1 - size) : value[i] # 0
            THEN Err(ErrKind("Overflow"))
            ELSE Ok(SubSeq(value, FullBlockSize + 2 - size, FullBlockSize + 1))

RECURSIVE decode_blocks(_)
decode_blocks(s) ==
    IF s = <<>> THEN Ok(<<>>)
    ELSE LET n == IF Len(s) < FullEncodedBlockSize THEN Len(s) ELSE FullEncodedBlockSize
             first == decode_block(SubSeq(s, 1, n))
         IN IF ~IsOk(first) THEN first
            ELSE LET rest == decode_blocks(SubSeq(s, n + 1, Len(s)))
                 IN IF ~IsOk(rest) THEN rest ELSE Ok(first.val \o rest.val)

base58_decode(s) ==
    IF \A n \in 0..FullBlockSize : EncodedBlockSizes[n + 1] # Len(s) % FullEncodedBlockSize
    THEN Err(ErrKind("InvalidBlockSize"))
    ELSE decode_blocks(s)

\* impl Display for Address
Address_to_string(a) == base58_encode(Address_as_bytes(a))

\* from_str that hands on the error of the base58 decoder as its own
Address_from_str_Unwrapped(s) ==
    LET decoded == base58_decode(s)
    IN IF ~IsOk(decoded) THEN Err(decoded.err)
       ELSE Address_from_bytes(decoded.val)

\* impl FromStr for Address
Address_from_str(s) ==
    LET decoded == base58_decode(s)
    IN IF ~IsOk(decoded) THEN Err(ErrWrap("Base58", decoded.err))
       ELSE Address_from_bytes(decoded.val)

(***************************************************************************)
(* consensus::encode: the cursor a decoder reads from is a byte string buf *)
(* and a position pos, the number of bytes consumed so far.  A decoder     *)
(* returns DOk(value, pos after it) or DErr(error, pos).                   *)
(***************************************************************************)
DOk(v, pos) == [tag |-> "Ok", val |-> v, err |-> NoErr, pos |-> pos]
DErr(e, pos) == [tag |-> "Err", val |-> NoVal, err |-> e, pos |-> pos]

\* read_exact: the next n bytes, or the error of an exhausted cursor
ReadBytes(buf, pos, n) ==
    IF pos + n > Len(buf) THEN DErr(ErrKind("Io"), pos)
    ELSE DOk(SubSeq(buf, pos + 1, pos + n), pos + n)

\* Decodable / Encodable for u8
u8_decode(buf, pos) ==
    LET r == ReadBytes(buf, pos, 1)
    IN IF ~IsOk(r) THEN r ELSE DOk(r.val[1], r.pos)
u8_encode(v) == <<v>>

\* Decodable / Encodable for u32: 4 bytes, little-endian
U32Len == 4
u32_decode(buf, pos) ==
    LET r == ReadBytes(buf, pos, U32Len)
    IN IF ~IsOk(r) THEN r
       ELSE DOk(r.val[1] + 256 * r.val[2] + 65536 * r.val[3] + 16777216 * r.val[4], r.pos)
u32_encode(v) ==
    <<v % 256, (v \div 256) % 256, (v \div 65536) % 256, (v \div 16777216) % 256>>

\* VarInt: 7 bits a byte from the low end, bit 8 set while more bytes follow;
\* a VarInt of a u64 takes at most VarIntMaxLen bytes
VarIntMaxLen == 10
RECURSIVE VarInt_encode(_)
VarInt_encode(v) ==
    IF v < 128 THEN <<v>>
    ELSE <<128 + (v % 128)>> \o VarInt_encode(v \div 128)
\* the bytes read so far are worth acc, the next 7 bits weigh weight
RECURSIVE VarInt_decode_from(_, _, _, _, _)
VarInt_decode_from(buf, pos, count, weight, acc) ==
    IF count = VarIntMaxLen THEN DErr(ErrKind("ParseFailed"), pos)
    ELSE IF pos + 1 > Len(buf) THEN DErr(ErrKind("Io"), pos)
    ELSE LET b == buf[pos + 1]
         IN IF b < 128 THEN DOk(acc + b * weight, pos + 1)
            ELSE VarInt_decode_from(buf, pos + 1, count + 1, weight * 128,
                                    acc + (b - 128) * weight)
VarInt_decode(buf, pos) == VarInt_decode_from(buf, pos, 0, 1, 0)

\* the concatenation of a sequence of byte strings
RECURSIVE Flatten(_)
Flatten(ss) == IF ss = <<>> THEN <<>> ELSE Head(ss) \o Flatten(Tail(ss))

\* encode_sized_vec!: the encodings of the elements one after the other, no
\* length written
encode_sized_vec(encoded) == Flatten(encoded)

\* decode_sized_vec! for elements of a fixed width w: n elements decoded one
\* after the other, an error as soon as one cannot be read
decode_sized_vec(buf, pos, n, w) ==
    LET whole == (Len(buf) - pos) \div w
    IN IF whole < n THEN DErr(ErrKind("Io"), pos + whole * w)
       ELSE DOk([i \in 1..n |-> SubSeq(buf, pos + (i - 1) * w + 1, pos + i * w)],
                pos + n * w)

(***************************************************************************)
(* util/ringct.rs.  A Key is its 32 bytes, a Key64 its 64 bytes, a Hash8   *)
(* its 8 bytes; the other structures are records with the fields of the    *)
(* source.                                                                 *)
(***************************************************************************)
Key64Len == 64
Hash8Len == 8

RctTypes == {"Null", "Full", "Simple", "Bulletproof", "Bulletproof2"}

is_rct_bp(rct_type) == rct_type \in {"Bulletproof", "Bulletproof2"}

RctType_consensus_decode_Modulo(buf, pos) ==
    LET r == u8_decode(buf, pos)
    IN IF ~IsOk(r) THEN r
       ELSE DOk(CASE r.val % 5 = 0 -> "Null"
                  [] r.val % 5 = 1 -> "Full"
                  [] r.val % 5 = 2 -> "Simple"
                  [] r.val % 5 = 3 -> "Bulletproof"
                  [] OTHER -> "Bulletproof2", r.pos)
RctType_consensus_decode(buf, pos) ==
    LET r == u8_decode(buf, pos)
    IN IF ~IsOk(r) THEN r
       ELSE CASE r.val = 0 -> DOk("Null", r.pos)
              [] r.val = 1 -> DOk("Full", r.pos)
              [] r.val = 2 -> DOk("Simple", r.pos)
              [] r.val = 3 -> DOk("Bulletproof", r.pos)
              [] r.val = 4 -> DOk("Bulletproof2", r.pos)
              [] OTHER -> DErr(ErrKind("UnknownRctType"), r.pos)

RctType_consensus_encode(rct_type) ==
    CASE rct_type = "Null" -> u8_encode(0)
      [] rct_type = "Full" -> u8_encode(1)
      [] rct_type = "Simple" -> u8_encode(2)
      [] rct_type = "Bulletproof" -> u8_encode(3)
      [] rct_type = "Bulletproof2" -> u8_encode(4)

\* Option<T>
None == [some |-> FALSE]
Some(x) == [some |-> TRUE, value |-> x]

Key_consensus_decode(buf, pos) == ReadBytes(buf, pos, KeyLen)
Key_consensus_encode(k) == k
Key64_consensus_encode(k) == k
Hash8_consensus_decode(buf, pos) == ReadBytes(buf, pos, Hash8Len)

\* CtKey { mask }, from the KeyLen bytes of one element
CtKey_consensus_decode(elem) == [mask |-> elem]
CtKey_consensus_encode(ctkey) == Key_consensus_encode(ctkey.mask)

\* EcdhInfo::Standard { mask, amount } and EcdhInfo::Bulletproof2 { amount }
EcdhStandard(mask, amount) == [variant |-> "Standard", mask |-> mask, amount |-> amount]
EcdhBulletproof2(amount) == [variant |-> "Bulletproof2", amount |-> amount]

EcdhInfo_consensus_decode_Standard(buf, pos, rct_type) ==
    LET mask == Key_consensus_decode(buf, pos)
    IN IF ~IsOk(mask) THEN mask
       ELSE LET amount == Key_consensus_decode(buf, mask.pos)
            IN IF ~IsOk(amount) THEN amount
               ELSE DOk(EcdhStandard(mask.val, amount.val), amount.pos)
EcdhInfo_consensus_decode(buf, pos, rct_type) ==
    IF rct_type \in {"Full", "Simple", "Bulletproof", "Null"}
    THEN LET mask == Key_consensus_decode(buf, pos)
         IN IF ~IsOk(mask) THEN mask
            ELSE LET amount == Key_consensus_decode(buf, mask.pos)
                 IN IF ~IsOk(amount) THEN amount
                    ELSE DOk(EcdhStandard(mask.val, amount.val), amount.pos)
    ELSE LET amount == Hash8_consensus_decode(buf, pos)
         IN IF ~IsOk(amount) THEN amount
            ELSE DOk(EcdhBulletproof2(amount.val), amount.pos)

EcdhInfo_consensus_encode(ecdh) ==
    IF ecdh.variant = "Standard"
    THEN Key_consensus_encode(ecdh.mask) \o Key_consensus_encode(ecdh.amount)
    ELSE ecdh.amount

\* BoroSig { s0: Key64, s1: Key64, ee: Key }
BoroSigLen == Key64Len + Key64Len + KeyLen
BoroSig_consensus_decode(elem) ==
    [s0 |-> SubSeq(elem, 1, Key64Len),
     s1 |-> SubSeq(elem, Key64Len + 1, 2 * Key64Len),
     ee |-> SubSeq(elem, 2 * Key64Len + 1, BoroSigLen)]
BoroSig_consensus_encode(boro) ==
    Key64_consensus_encode(boro.s0) \o Key64_consensus_encode(boro.s1)
        \o Key_consensus_encode(boro.ee)

\* RangeSig { asig: BoroSig, Ci: Key64 }
RangeSigLen == BoroSigLen + Key64Len
RangeSig_consensus_decode(elem) ==
    [asig |-> BoroSig_consensus_decode(SubSeq(elem, 1, BoroSigLen)),
     Ci |-> SubSeq(elem, BoroSigLen + 1, RangeSigLen)]
RangeSig_consensus_encode(range) ==
    BoroSig_consensus_encode(range.asig) \o Key64_consensus_encode(range.Ci)

\* Vec<Key>: the length as a VarInt, then the keys
VecKey_consensus_decode(buf, pos) ==
    LET len == VarInt_decode(buf, pos)
    IN IF ~IsOk(len) THEN len ELSE decode_sized_vec(buf, len.pos, len.val, KeyLen)
VecKey_consensus_encode(keys) ==
    VarInt_encode(Len(keys)) \o Flatten(keys)

\* Bulletproof { A, S, T1, T2, taux, mu, L, R, a, b, t }
Bulletproof(head, L, R, tail) ==
    [A |-> head[1], S |-> head[2], T1 |-> head[3], T2 |-> head[4],
     taux |-> head[5], mu |-> head[6], L |-> L, R |-> R,
     a |-> tail[1], b |-> tail[2], t |-> tail[3]]
\* the fields are decoded in the order of the structure: a, b, t after
\* A..mu (head), L and R
Bulletproof_decode_abt(buf, head, L, R) ==
    LET tail == decode_sized_vec(buf, R.pos, 3, KeyLen)
    IN IF ~IsOk(tail) THEN tail
       ELSE DOk(Bulletproof(head.val, L.val, R.val, tail.val), tail.pos)
Bulletproof_decode_R(buf, head, L) ==
    LET R == VecKey_consensus_decode(buf, L.pos)
    IN IF ~IsOk(R) THEN R ELSE Bulletproof_decode_abt(buf, head, L, R)
Bulletproof_decode_L(buf, head) ==
    LET L == VecKey_consensus_decode(buf, head.pos)
    IN IF ~IsOk(L) THEN L ELSE Bulletproof_decode_R(buf, head, L)
Bulletproof_consensus_decode(buf, pos) ==
    LET head == decode_sized_vec(buf, pos, 6, KeyLen)
    IN IF ~IsOk(head) THEN head ELSE Bulletproof_decode_L(buf, head)
Bulletproof_consensus_encode(bp) ==
    bp.A \o bp.S \o bp.T1 \o bp.T2 \o bp.taux \o bp.mu
        \o VecKey_consensus_encode(bp.L) \o VecKey_consensus_encode(bp.R)
        \o bp.a \o bp.b \o bp.t

\* decode_sized_vec! for Bulletproof, whose width varies: n elements one
\* after the other, after the elements of acc
RECURSIVE decode_sized_vec_Bulletproof(_, _, _, _)
decode_sized_vec_Bulletproof(buf, pos, n, acc) ==
    IF n = 0 THEN DOk(acc, pos)
    ELSE LET bp == Bulletproof_consensus_decode(buf, pos)
         IN IF ~IsOk(bp) THEN bp
            ELSE decode_sized_vec_Bulletproof(buf, bp.pos, n - 1, Append(acc, bp.val))

\* Vec<Bulletproof>: the length as a VarInt, then the elements
VecBulletproof_consensus_decode(buf, pos) ==
    LET len == VarInt_decode(buf, pos)
    IN IF ~IsOk(len) THEN len
       ELSE decode_sized_vec_Bulletproof(buf, len.pos, len.val, <<>>)
VecBulletproof_consensus_encode(bps) ==
    VarInt_encode(Len(bps))
        \o Flatten([i \in 1..Len(bps) |-> Bulletproof_consensus_encode(bps[i])])

\* MgSig { ss: Vec<Vec<Key>>, cc: Key }: every row of ss, then cc
MgSig_consensus_encode_CcFirst(mg) ==
    Key_consensus_encode(mg.cc)
        \o Flatten([i \in 1..Len(mg.ss) |-> encode_sized_vec(mg.ss[i])])
MgSig_consensus_encode(mg) ==
    Flatten([i \in 1..Len(mg.ss) |-> encode_sized_vec(mg.ss[i])])
        \o Key_consensus_encode(mg.cc)

\* RctSigBase { rct_type, txn_fee, pseudo_outs, ecdh_info, out_pk }
RctSigBase(rct_type, txn_fee, pseudo_outs, ecdh_info, out_pk) ==
    [rct_type |-> rct_type, txn_fee |-> txn_fee, pseudo_outs |-> pseudo_outs,
     ecdh_info |-> ecdh_info, out_pk |-> out_pk]

RECURSIVE DecodeEcdhInfo_Partial(_, _, _, _, _)
DecodeEcdhInfo_Partial(buf, pos, n, rct_type, acc) ==
    IF n = 0 THEN DOk(acc, pos)
    ELSE LET ecdh == EcdhInfo_consensus_decode(buf, pos, rct_type)
         IN IF ~IsOk(ecdh) THEN DOk(acc, pos)
            ELSE DecodeEcdhInfo_Partial(buf, ecdh.pos, n - 1, rct_type,
                                        Append(acc, ecdh.val))
\* the loop over the outputs of RctSigBase::consensus_decode: n more
\* EcdhInfo after those of acc
RECURSIVE DecodeEcdhInfo(_, _, _, _, _)
DecodeEcdhInfo(buf, pos, n, rct_type, acc) ==
    IF n = 0 THEN DOk(acc, pos)
    ELSE LET ecdh == EcdhInfo_consensus_decode(buf, pos, rct_type)
         IN IF ~IsOk(ecdh) THEN ecdh
            ELSE DecodeEcdhInfo(buf, ecdh.pos, n - 1, rct_type, Append(acc, ecdh.val))

\* RctSigBase::consensus_decode, step by step: each step reads one field
\* after those read before it
RctSigBase_decode_out_pk(buf, outputs, rct_type, txn_fee, pseudo_outs, ecdh_info) ==
    LET out_pk == decode_sized_vec(buf, ecdh_info.pos, outputs, KeyLen)
    IN IF ~IsOk(out_pk) THEN out_pk
       ELSE DOk(Some(RctSigBase(rct_type, txn_fee.val, pseudo_outs.val, ecdh_info.val,
                                [i \in 1..outputs |->
                                    CtKey_consensus_decode(out_pk.val[i])])),
                out_pk.pos)
RctSigBase_decode_ecdh_info(buf, outputs, rct_type, txn_fee, pseudo_outs) ==
    LET ecdh_info == DecodeEcdhInfo(buf, pseudo_outs.pos, outputs, rct_type, <<>>)
    IN IF ~IsOk(ecdh_info) THEN ecdh_info
       ELSE RctSigBase_decode_out_pk(buf, outputs, rct_type, txn_fee, pseudo_outs,
                                     ecdh_info)
RctSigBase_decode_pseudo_outs_Always(buf, inputs, outputs, rct_type, txn_fee) ==
    LET pseudo_outs == decode_sized_vec(buf, txn_fee.pos, inputs, KeyLen)
    IN IF ~IsOk(pseudo_outs) THEN pseudo_outs
       ELSE RctSigBase_decode_ecdh_info(buf, outputs, rct_type, txn_fee, pseudo_outs)
RctSigBase_decode_pseudo_outs(buf, inputs, outputs, rct_type, txn_fee) ==
    LET pseudo_outs == IF rct_type = "Simple"
                       THEN decode_sized_vec(buf, txn_fee.pos, inputs, KeyLen)
                       ELSE DOk(<<>>, txn_fee.pos)
    IN IF ~IsOk(pseudo_outs) THEN pseudo_outs
       ELSE RctSigBase_decode_ecdh_info(buf, outputs, rct_type, txn_fee, pseudo_outs)
RctSigBase_decode_txn_fee(buf, pos, inputs, outputs, rct_type) ==
    LET txn_fee == VarInt_decode(buf, pos)
    IN IF ~IsOk(txn_fee) THEN txn_fee
       ELSE RctSigBase_decode_pseudo_outs(buf, inputs, outputs, rct_type, txn_fee)
\* RctSigBase::consensus_decode that leaves the cursor on the last byte it read
RctSigBase_consensus_decode_Unread(buf, pos, inputs, outputs) ==
    LET rct_type == RctType_consensus_decode(buf, pos)
        base == RctSigBase_decode_txn_fee(buf, rct_type.pos, inputs, outputs, rct_type.val)
    IN IF ~IsOk(rct_type) THEN rct_type
       ELSE IF rct_type.val = "Null" THEN DOk(None, rct_type.pos)
       ELSE IF IsOk(base) THEN DOk(base.val, base.pos - 1)
       ELSE base
RctSigBase_consensus_decode_NullFields(buf, pos, inputs, outputs) ==
    LET rct_type == RctType_consensus_decode(buf, pos)
    IN IF ~IsOk(rct_type) THEN rct_type
       ELSE RctSigBase_decode_txn_fee(buf, rct_type.pos, inputs, outputs, rct_type.val)
RctSigBase_consensus_decode(buf, pos, inputs, outputs) ==
    LET rct_type == RctType_consensus_decode(buf, pos)
    IN IF ~IsOk(rct_type) THEN rct_type
       ELSE IF rct_type.val = "Null" THEN DOk(None, rct_type.pos)
       ELSE RctSigBase_decode_txn_fee(buf, rct_type.pos, inputs, outputs, rct_type.val)

RctSigBase_consensus_encode_AllFields(base) ==
    RctType_consensus_encode(base.rct_type)
        \o VarInt_encode(base.txn_fee)
        \o encode_sized_vec(base.pseudo_outs)
        \o encode_sized_vec([i \in 1..Len(base.ecdh_info) |->
                                EcdhInfo_consensus_encode(base.ecdh_info[i])])
        \o encode_sized_vec([i \in 1..Len(base.out_pk) |->
                                CtKey_consensus_encode(base.out_pk[i])])
RctSigBase_consensus_encode(base) ==
    RctType_consensus_encode(base.rct_type)
        \o IF base.rct_type = "Null" THEN <<>>
           ELSE VarInt_encode(base.txn_fee)
                \o (IF base.rct_type = "Simple"
                    THEN encode_sized_vec(base.pseudo_outs) ELSE <<>>)
                \o encode_sized_vec([i \in 1..Len(base.ecdh_info) |->
                                        EcdhInfo_consensus_encode(base.ecdh_info[i])])
                \o encode_sized_vec([i \in 1..Len(base.out_pk) |->
                                        CtKey_consensus_encode(base.out_pk[i])])

\* consensus::encode::serialize: the bytes consensus_encode writes
serialize(base) == RctSigBase_consensus_encode(base)

\* impl Hashable for RctSigBase
RctSigBase_hash_Untagged(base) == Hash_hash(Tail(serialize(base)))
RctSigBase_hash(base) == Hash_hash(serialize(base))

\* RctSigPrunable { range_sigs, bulletproofs, MGs, pseudo_outs }
RctSigPrunable(range_sigs, bulletproofs, MGs, pseudo_outs) ==
    [range_sigs |-> range_sigs, bulletproofs |-> bulletproofs, MGs |-> MGs,
     pseudo_outs |-> pseudo_outs]

\* the loop over 0..=mixin of RctSigPrunable::consensus_decode: rows more
\* rows of width keys after those of acc
RECURSIVE DecodeRows(_, _, _, _, _)
DecodeRows(buf, pos, rows, width, acc) ==
    IF rows = 0 THEN DOk(acc, pos)
    ELSE LET ss_elems == decode_sized_vec(buf, pos, width, KeyLen)
         IN IF ~IsOk(ss_elems) THEN ss_elems
            ELSE DecodeRows(buf, ss_elems.pos, rows - 1, width, Append(acc, ss_elems.val))

RECURSIVE DecodeMGs_CcFirst(_, _, _, _, _, _)
DecodeMGs_CcFirst(buf, pos, n, mixin, width, acc) ==
    IF n = 0 THEN DOk(acc, pos)
    ELSE LET cc == Key_consensus_decode(buf, pos)
         IN IF ~IsOk(cc) THEN cc
            ELSE LET ss == DecodeRows(buf, cc.pos, mixin + 1, width, <<>>)
                 IN IF ~IsOk(ss) THEN ss
                    ELSE DecodeMGs_CcFirst(buf, ss.pos, n - 1, mixin, width,
                                           Append(acc, [ss |-> ss.val, cc |-> cc.val]))
\* the loop over 0..mg_elements: n more MgSig after those of acc
RECURSIVE DecodeMGs(_, _, _, _, _, _)
DecodeMGs(buf, pos, n, mixin, width, acc) ==
    IF n = 0 THEN DOk(acc, pos)
    ELSE LET ss == DecodeRows(buf, pos, mixin + 1, width, <<>>)
         IN IF ~IsOk(ss) THEN ss
            ELSE LET cc == Key_consensus_decode(buf, ss.pos)
                 IN IF ~IsOk(cc) THEN cc
                    ELSE DecodeMGs(buf, cc.pos, n - 1, mixin, width,
                                   Append(acc, [ss |-> ss.val, cc |-> cc.val]))

\* RctSigPrunable::consensus_decode, step by step: the proofs (range_sigs
\* or bulletproofs), then the MGs, then the pseudo_outs
RctSigPrunable_decode_pseudo_outs_Always(buf, rct_type, inputs, outputs, proofs, MGs) ==
    LET pseudo_outs == decode_sized_vec(buf, MGs.pos, inputs, KeyLen)
    IN IF ~IsOk(pseudo_outs) THEN pseudo_outs
       ELSE DOk(Some(RctSigPrunable(
                    IF is_rct_bp(rct_type) THEN <<>>
                    ELSE [i \in 1..outputs |-> RangeSig_consensus_decode(proofs.val[i])],
                    IF is_rct_bp(rct_type) THEN proofs.val ELSE <<>>,
                    MGs.val, pseudo_outs.val)), pseudo_outs.pos)
RctSigPrunable_decode_pseudo_outs(buf, rct_type, inputs, outputs, proofs, MGs) ==
    LET pseudo_outs == IF is_rct_bp(rct_type)
                       THEN decode_sized_vec(buf, MGs.pos, inputs, KeyLen)
                       ELSE DOk(<<>>, MGs.pos)
    IN IF ~IsOk(pseudo_outs) THEN pseudo_outs
       ELSE DOk(Some(RctSigPrunable(
                    IF is_rct_bp(rct_type) THEN <<>>
                    ELSE [i \in 1..outputs |-> RangeSig_consensus_decode(proofs.val[i])],
                    IF is_rct_bp(rct_type) THEN proofs.val ELSE <<>>,
                    MGs.val, pseudo_outs.val)), pseudo_outs.pos)
RctSigPrunable_decode_MGs(buf, rct_type, inputs, outputs, mixin, proofs) ==
    LET is_full == rct_type = "Full"
        mg_elements == IF is_full THEN 1 ELSE inputs
        mg_ss2_elements == IF is_full THEN 1 + inputs ELSE 2
        MGs == DecodeMGs(buf, proofs.pos, mg_elements, mixin, mg_ss2_elements, <<>>)
    IN IF ~IsOk(MGs) THEN MGs
       ELSE RctSigPrunable_decode_pseudo_outs(buf, rct_type, inputs, outputs, proofs, MGs)
RctSigPrunable_decode_bulletproofs_VarInt(buf, pos) ==
    VecBulletproof_consensus_decode(buf, pos)
RctSigPrunable_decode_bulletproofs(buf, pos) ==
    LET size == u32_decode(buf, pos)
    IN IF ~IsOk(size) THEN size
       ELSE decode_sized_vec_Bulletproof(buf, size.pos, size.val, <<>>)
\* RctSigPrunable::consensus_decode that refuses a cursor it has not read to
\* the end
RctSigPrunable_consensus_decode_Checked(buf, pos, rct_type, inputs, outputs, mixin) ==
    LET proofs ==
            IF is_rct_bp(rct_type)
            THEN IF rct_type = "Bulletproof2"
                 THEN VecBulletproof_consensus_decode(buf, pos)
                 ELSE RctSigPrunable_decode_bulletproofs(buf, pos)
            ELSE decode_sized_vec(buf, pos, outputs, RangeSigLen)
        decoded ==
            IF rct_type = "Null" THEN DOk(None, pos)
            ELSE IF ~IsOk(proofs) THEN proofs
            ELSE RctSigPrunable_decode_MGs(buf, rct_type, inputs, outputs, mixin, proofs)
    IN IF IsOk(decoded) /\ decoded.pos # Len(buf)
       THEN DErr(ErrKind("Inconsistent"), decoded.pos)
       ELSE decoded
\* RctSigPrunable::consensus_decode
RctSigPrunable_consensus_decode(buf, pos, rct_type, inputs, outputs, mixin) ==
    IF rct_type = "Null" THEN DOk(None, pos)
    ELSE
    LET proofs ==
            IF is_rct_bp(rct_type)
            THEN IF rct_type = "Bulletproof2"
                 THEN VecBulletproof_consensus_decode(buf, pos)
                 ELSE RctSigPrunable_decode_bulletproofs(buf, pos)
            ELSE decode_sized_vec(buf, pos, outputs, RangeSigLen)
    IN IF ~IsOk(proofs) THEN proofs
       ELSE RctSigPrunable_decode_MGs(buf, rct_type, inputs, outputs, mixin, proofs)

\* u32::try_from(len).unwrap_or(u32::max_value()): every length of the model
\* is below 2^32, where try_from succeeds
u32_try_from(len) == len

RctSigPrunable_consensus_encode(prunable, rct_type) ==
    IF rct_type = "Null" THEN Ok(<<>>)
    ELSE Ok((IF is_rct_bp(rct_type)
             THEN IF rct_type = "Bulletproof2"
                  THEN VecBulletproof_consensus_encode(prunable.bulletproofs)
                  ELSE u32_encode(u32_try_from(Len(prunable.bulletproofs)))
                       \o encode_sized_vec([i \in 1..Len(prunable.bulletproofs) |->
                              Bulletproof_consensus_encode(prunable.bulletproofs[i])])
             ELSE encode_sized_vec([i \in 1..Len(prunable.range_sigs) |->
                              RangeSig_consensus_encode(prunable.range_sigs[i])]))
            \o encode_sized_vec([i \in 1..Len(prunable.MGs) |->
                              MgSig_consensus_encode(prunable.MGs[i])])
            \o (IF is_rct_bp(rct_type)
                THEN encode_sized_vec(prunable.pseudo_outs) ELSE <<>>))

(***************************************************************************)
(* The address operations as a state machine: an Address is constructed,   *)
(* encoded, and its encoding (as it is, or damaged) is handed to the       *)
(* decoders.                                                               *)
(***************************************************************************)
NumKeyPairs == 3
NumPaymentIds == 1

\* KeyPair i: two private keys (view, spend), both canonical and not zero
KeyPairOf(i) ==
    KeyPair(PrivateKey(ScalarOf(1 + (i % (GroupOrder - 1)))),
            PrivateKey(ScalarOf(1 + ((i \div 2) % (GroupOrder - 1)))))
KeyPairs == {KeyPairOf(i) : i \in 1..NumKeyPairs}
\* the (spend, view) public keys an address is constructed with
AddressKeys ==
    {<<PublicKey_from_private_key(k.spend), PublicKey_from_private_key(k.view)>> :
        k \in KeyPairs}
PaymentIdOf(i) == [j \in 1..PaymentIdLen |-> (88 * i + 29 * j) % 256]
PaymentIds == {PaymentIdOf(i) : i \in 1..NumPaymentIds}

NoAddress == Address("none", Standard, PublicKey(<<>>), PublicKey(<<>>))
NoKey == [sort |-> "none", data |-> <<>>]
NoCall == [fn |-> "none", a |-> <<>>, b |-> <<>>]
NoRct == "none"
Context(rct_type, inputs, outputs, mixin) ==
    [rct_type |-> rct_type, inputs |-> inputs, outputs |-> outputs, mixin |-> mixin]
NoContext == Context("none", 0, 0, 0)

Init ==
    /\ addr = NoAddress
    /\ bytes = <<>>
    /\ text = <<>>
    /\ how = "none"
    /\ op = "start"
    /\ net = "none"
    /\ ret = NoRet
    /\ key = NoKey
    /\ kcall = NoCall
    /\ kret = NoRet
    /\ rct = NoRct
    /\ rctx = NoContext
    /\ rbuf = <<>>
    /\ rhow = "none"
    /\ rop = "start"
    /\ rret = NoRet

\* Address::standard
NewStandard ==
    /\ op = "start"
    /\ \E n \in Network, keys \in AddressKeys :
          addr' = Address(n, Standard, keys[1], keys[2])
    /\ op' = "new"
    /\ UNCHANGED <<bytes, text, how, net, ret, kvars, rvars>>

\* Address::subaddress
NewSubAddress ==
    /\ op = "start"
    /\ \E n \in Network, keys \in AddressKeys :
          addr' = Address(n, SubAddress, keys[1], keys[2])
    /\ op' = "new"
    /\ UNCHANGED <<bytes, text, how, net, ret, kvars, rvars>>

\* Address::integrated
NewIntegrated ==
    /\ op = "start"
    /\ \E n \in Network, keys \in AddressKeys, payment_id \in PaymentIds :
          addr' = Address(n, Integrated(payment_id), keys[1], keys[2])
    /\ op' = "new"
    /\ UNCHANGED <<bytes, text, how, net, ret, kvars, rvars>>

\* Address::from_keypair on k, and Address::from_viewpair on ViewPair::from(k):
\* bytes holds the two scalars of k (view, spend), ret the second address
FromKeypair ==
    /\ op = "start"
    /\ \E n \in Network, k \in KeyPairs :
          /\ addr' = Address_from_keypair(n, k)
          /\ ret' = Ok(Address_from_viewpair(n, ViewPair_from(k)))
          /\ bytes' = k.view.scalar \o k.spend.scalar
          /\ net' = n
    /\ op' = "from_keypair"
    /\ UNCHANGED <<text, how, kvars, rvars>>

\* Address::as_bytes
AsBytes ==
    /\ op = "new"
    /\ bytes' = Address_as_bytes(addr)
    /\ op' = "as_bytes"
    /\ UNCHANGED <<addr, text, how, net, ret, kvars, rvars>>

\* Address::from_bytes on the input b, derived from the encoding as h says
FromBytes(b, h) ==
    /\ bytes' = b
    /\ how' = h
    /\ ret' = Address_from_bytes(b)
    /\ op' = "from_bytes"
    /\ UNCHANGED <<addr, text, net, kvars, rvars>>

FromBytesExact ==
    /\ op = "as_bytes"
    /\ FromBytes(bytes, "exact")
FromBytesFlipped ==
    /\ op = "as_bytes"
    /\ \E i \in 0..(8 * Len(bytes) - 1) : FromBytes(FlipBit(bytes, i), "flip")
FromBytesTruncated ==
    /\ op = "as_bytes"
    /\ \E n \in 0..(Len(bytes) - 1) : FromBytes(SubSeq(bytes, 1, n), "trunc")
FromBytesExtended ==
    /\ op = "as_bytes"
    /\ \E b \in {0, 255} : FromBytes(Append(bytes, b), "extend")
\* another first byte, before the rest of the encoding or alone
FromBytesMagic ==
    /\ op = "as_bytes"
    /\ \E b \in Byte \ {bytes[1]}, n \in {1, Len(bytes)} :
          FromBytes(<<b>> \o SubSeq(bytes, 2, n), "magic")

\* another first byte and one bit of the spend or of the view key flipped:
\* an encoding that fails more than one of the checks of from_bytes
FromBytesMagicFlipped ==
    /\ op = "as_bytes"
    /\ \E n \in Network, t \in {Standard, SubAddress, Integrated(<<>>)},
          i \in {8, 9, 8 * 33, 8 * 33 + 1} :
          /\ Network_as_u8(n, t) # bytes[1]
          /\ FromBytes(FlipBit(<<Network_as_u8(n, t)>> \o Tail(bytes), i), "magicflip")

\* AddressType::from_slice on a prefix of the encoding, under any network
TypeFromSlice ==
    /\ op = "as_bytes"
    /\ \E n \in Network, len \in 0..Len(bytes) :
          /\ bytes' = SubSeq(bytes, 1, len)
          /\ how' = IF len = Len(bytes) THEN "exact" ELSE "trunc"
          /\ net' = n
          /\ ret' = AddressType_from_slice(SubSeq(bytes, 1, len), n)
    /\ op' = "from_slice"
    /\ UNCHANGED <<addr, text, kvars, rvars>>

\* impl Display for Address
DisplayAddress ==
    /\ op = "as_bytes"
    /\ text' = Address_to_string(addr)
    /\ op' = "to_string"
    /\ UNCHANGED <<addr, bytes, how, net, ret, kvars, rvars>>

\* Address::from_str on the text s, derived from the address's text as h says
FromStr(s, h) ==
    /\ text' = s
    /\ how' = h
    /\ ret' = Address_from_str(s)
    /\ op' = "from_str"
    /\ UNCHANGED <<addr, bytes, net, kvars, rvars>>

FromStrExact ==
    /\ op = "to_string"
    /\ FromStr(text, "exact")
\* one character replaced by the last digit of the alphabet or by a
\* character outside the alphabet
FromStrReplaced ==
    /\ op = "to_string"
    /\ \E i \in 1..Len(text) : \E c \in {Base58Radix - 1, NotASymbol} \ {text[i]} :
          FromStr([text EXCEPT ![i] = c], "symbol")
FromStrTruncated ==
    /\ op = "to_string"
    /\ \E n \in 0..(Len(text) - 1) : FromStr(SubSeq(text, 1, n), "trunc")
\* the text of the encoding followed by one more byte
FromStrExtended ==
    /\ op = "to_string"
    /\ \E b \in {0, 255} : FromStr(base58_encode(Append(bytes, b)), "extend")

Next ==
    \/ NewStandard
    \/ NewSubAddress
    \/ NewIntegrated
    \/ FromKeypair
    \/ AsBytes
    \/ FromBytesExact
    \/ FromBytesFlipped
    \/ FromBytesTruncated
    \/ FromBytesExtended
    \/ FromBytesMagic
    \/ FromBytesMagicFlipped
    \/ TypeFromSlice
    \/ DisplayAddress
    \/ FromStrExact
    \/ FromStrReplaced
    \/ FromStrTruncated
    \/ FromStrExtended

Spec == Init /\ [][Next]_vars

(***************************************************************************)
(* The key operations as a state machine: the caller holds one key, made   *)
(* by any public construction path, and applies the arithmetic operators   *)
(* to it; the other operand is the key itself or a freshly constructed one.*)
(* Between two operations only the key is kept.                            *)
(***************************************************************************)
MaxDataByte == 6

\* n bytes: the first is v, the last is top, the others are zero
KeyData(v, top, n) == [i \in 1..n |-> IF i = 1 THEN v ELSE IF i = n THEN top ELSE 0]
KeyInputs ==
    {<<>>} \cup {KeyData(v, top, n) :
                    v \in 0..MaxDataByte, top \in {0, 1, 128},
                    n \in {KeyLen - 1, KeyLen, KeyLen + 1}}
KeyArrays == {d \in KeyInputs : Len(d) = KeyLen}
\* hex text: of an input, of an input less its last digit, and with a
\* character that is no hex digit
HexInputs ==
    {hex_encode(d) : d \in KeyArrays}
      \cup {SubSeq(hex_encode(d), 1, 2 * KeyLen - 1) : d \in KeyArrays}
      \cup {[hex_encode(d) EXCEPT ![1] = NotAHexDigit] : d \in KeyArrays}
\* Scalar::from_bits: any 32 bytes with bit 255 cleared
Scalar_from_bits(d) == [i \in 1..KeyLen |-> IF i = KeyLen THEN d[i] % 128 ELSE d[i]]

Private(k) == [sort |-> "PrivateKey", data |-> k.scalar]
Public(k) == [sort |-> "PublicKey", data |-> k.point]
Call(fn, a, b) == [fn |-> fn, a |-> a, b |-> b]

\* the private keys a caller can make in one step, and the one it holds
PrivateOperands ==
    {PrivateKey_from_slice(d).val : d \in {x \in KeyArrays : IsOk(PrivateKey_from_slice(x))}}
      \cup {PrivateKey_from_scalar(Scalar_from_bits(d)) : d \in KeyArrays}
      \cup (IF key.sort = "PrivateKey" THEN {PrivateKey(key.data)} ELSE {})
\* the public keys a caller can make in one step, and the one it holds
PublicOperands ==
    {PublicKey(d) : d \in KeyArrays}
      \cup (IF key.sort = "PublicKey" THEN {PublicKey(key.data)} ELSE {})

\* a constructor that returns Result<PrivateKey, _>
MakePrivate(fn, input, r) ==
    /\ kcall' = Call(fn, input, <<>>)
    /\ kret' = r
    /\ key' = IF IsOk(r) THEN Private(r.val) ELSE key
    /\ UNCHANGED <<avars, rvars>>

\* a constructor or operator that returns Result<PublicKey, _> or aborts
MakePublic(fn, a, b, r) ==
    /\ kcall' = Call(fn, a, b)
    /\ kret' = r
    /\ key' = IF IsOk(r) THEN Public(r.val) ELSE key
    /\ UNCHANGED <<avars, rvars>>

PrivateFromSlice ==
    /\ kcall = NoCall
    /\ \E d \in KeyInputs : MakePrivate("PrivateKey::from_slice", d, PrivateKey_from_slice(d))
PrivateFromStr ==
    /\ kcall = NoCall
    /\ \E s \in HexInputs : MakePrivate("PrivateKey::from_str", s, PrivateKey_from_str(s))
PrivateDecode ==
    /\ kcall = NoCall
    /\ \E d \in KeyInputs :
        MakePrivate("PrivateKey::consensus_decode", d, PrivateKey_consensus_decode(d))
\* PrivateKey::from_scalar, or PrivateKey { scalar } through the public field
PrivateFromScalar ==
    /\ kcall = NoCall
    /\ \E d \in KeyArrays :
        MakePrivate("PrivateKey::from_scalar", Scalar_from_bits(d),
                    Ok(PrivateKey_from_scalar(Scalar_from_bits(d))))
HashAsScalar ==
    /\ kcall = NoCall
    /\ \E d \in KeyArrays : MakePrivate("Hash::as_scalar", d, Ok(Hash_as_scalar(d)))

\* Hash::hash_to_scalar on a byte string
HashToScalar ==
    /\ kcall = NoCall
    /\ \E d \in KeyInputs :
        MakePrivate("Hash::hash_to_scalar", d, Ok(Hash_hash_to_scalar(d)))
\* Hashable::hash_to_scalar of the PublicKey held
HashableToScalar ==
    /\ kcall = NoCall
    /\ key.sort = "PublicKey"
    /\ MakePrivate("Hashable::hash_to_scalar", key.data,
                   Ok(Hashable_hash_to_scalar(PublicKey_hash(PublicKey(key.data)))))

PublicFromSlice ==
    /\ kcall = NoCall
    /\ \E d \in KeyInputs : MakePublic("PublicKey::from_slice", d, <<>>, PublicKey_from_slice(d))
PublicFromStr ==
    /\ kcall = NoCall
    /\ \E s \in HexInputs : MakePublic("PublicKey::from_str", s, <<>>, PublicKey_from_str(s))
PublicDecode ==
    /\ kcall = NoCall
    /\ \E d \in KeyInputs :
        MakePublic("PublicKey::consensus_decode", d, <<>>, PublicKey_consensus_decode(d))
\* PublicKey { point } through the public field
PublicDirect ==
    /\ kcall = NoCall
    /\ \E d \in KeyArrays : MakePublic("PublicKey", d, <<>>, Ok(PublicKey(d)))
PublicFromPrivate ==
    /\ kcall = NoCall
    /\ key.sort = "PrivateKey"
    /\ MakePublic("PublicKey::from_private_key", key.data, <<>>,
                  Ok(PublicKey_from_private_key(PrivateKey(key.data))))

PrivateAdd ==
    /\ kcall = NoCall
    /\ key.sort = "PrivateKey"
    /\ \E other \in PrivateOperands :
          MakePrivate("PrivateKey + PrivateKey", key.data \o other.scalar,
                      Ok(PrivateKey_add(PrivateKey(key.data), other)))
PrivateMulU8 ==
    /\ kcall = NoCall
    /\ key.sort = "PrivateKey"
    /\ \E other \in 0..MaxDataByte :
          MakePrivate("PrivateKey * u8", key.data \o <<other>>,
                      Ok(PrivateKey_mul_u8(PrivateKey(key.data), other)))
PrivateMul ==
    /\ kcall = NoCall
    /\ key.sort = "PrivateKey"
    /\ \E other \in PrivateOperands :
          MakePrivate("PrivateKey * PrivateKey", key.data \o other.scalar,
                      Ok(PrivateKey_mul(PrivateKey(key.data), other)))
PrivateMulPoint ==
    /\ kcall = NoCall
    /\ key.sort = "PrivateKey"
    /\ \E other \in PublicOperands :
          MakePublic("PrivateKey * PublicKey", key.data, other.point,
                     PrivateKey_mul_point(PrivateKey(key.data), other))
PublicAdd ==
    /\ kcall = NoCall
    /\ key.sort = "PublicKey"
    /\ \E other \in PublicOperands :
          MakePublic("PublicKey + PublicKey", key.data, other.point,
                     PublicKey_add(PublicKey(key.data), other))
PublicSub ==
    /\ kcall = NoCall
    /\ key.sort = "PublicKey"
    /\ \E other \in PublicOperands :
          MakePublic("PublicKey - PublicKey", key.data, other.point,
                     PublicKey_sub(PublicKey(key.data), other))
PublicMul ==
    /\ kcall = NoCall
    /\ key.sort = "PublicKey"
    /\ \E other \in PrivateOperands :
          MakePublic("PublicKey * PrivateKey", key.data, other.scalar,
                     PublicKey_mul(PublicKey(key.data), other))

\* the caller keeps the key it holds and goes on to the next operation
NextCall ==
    /\ kcall # NoCall
    /\ kcall' = NoCall
    /\ kret' = NoRet
    /\ UNCHANGED <<key, avars, rvars>>

KeyNext ==
    \/ PrivateFromSlice
    \/ PrivateFromStr
    \/ PrivateDecode
    \/ PrivateFromScalar
    \/ HashAsScalar
    \/ HashToScalar
    \/ HashableToScalar
    \/ PublicFromSlice
    \/ PublicFromStr
    \/ PublicDecode
    \/ PublicDirect
    \/ PublicFromPrivate
    \/ PrivateAdd
    \/ PrivateMulU8
    \/ PrivateMul
    \/ PrivateMulPoint
    \/ PublicAdd
    \/ PublicSub
    \/ PublicMul
    \/ NextCall

KeySpec == Init /\ [][KeyNext]_vars

(***************************************************************************)
(* The RingCT codec as a state machine.  A value is built for a type and   *)
(* the counts of a transaction, encoded, and the encoding, or a damaged    *)
(* copy of it, is decoded again, under the same context or another one.    *)
(***************************************************************************)
MaxInputs == 2
MaxOutputs == 2
MaxMixin == 1

NonNullTypes == RctTypes \ {"Null"}
TxnFees == {0, 200, 20000}
RctTags == {0, 1, 2, 3, 4, 5, 255}

\* distinct keys: key i starts with byte i and differs from key i' everywhere
KeyOf(i) == [j \in 1..KeyLen |-> (i + 3 * j) % 128]
Key64Of(i) == [j \in 1..Key64Len |-> (i + 5 * j) % 128]
Hash8Of(i) == [j \in 1..Hash8Len |-> (i + 7 * j) % 128]
KeysOf(n, from) == [i \in 1..n |-> KeyOf(from + i)]

\* the variant EcdhInfo::consensus_decode builds for the type
EcdhVariants == {"Standard", "Bulletproof2"}
EcdhVariantOf(rct_type) ==
    IF rct_type = "Bulletproof2" THEN "Bulletproof2" ELSE "Standard"

EcdhInfoOf(variant, i) ==
    IF variant = "Bulletproof2" THEN EcdhBulletproof2(Hash8Of(10 + i))
    ELSE EcdhStandard(KeyOf(20 + i), KeyOf(30 + i))

\* the RctSigBase of a transaction of the given type and counts, its
\* ecdh_info of the given variant
BaseOf(rct_type, inputs, outputs, fee, variant) ==
    RctSigBase(rct_type, fee,
               IF rct_type = "Simple" THEN KeysOf(inputs, 0) ELSE <<>>,
               [i \in 1..outputs |-> EcdhInfoOf(variant, i)],
               [i \in 1..outputs |-> [mask |-> KeyOf(40 + i)]])

RangeSigOf(i) ==
    [asig |-> [s0 |-> Key64Of(50 + i), s1 |-> Key64Of(60 + i), ee |-> KeyOf(70 + i)],
     Ci |-> Key64Of(80 + i)]
BulletproofOf(i, rounds) ==
    [A |-> KeyOf(10 * i + 1), S |-> KeyOf(10 * i + 2), T1 |-> KeyOf(10 * i + 3),
     T2 |-> KeyOf(10 * i + 4), taux |-> KeyOf(10 * i + 5), mu |-> KeyOf(10 * i + 6),
     L |-> KeysOf(rounds, 90), R |-> KeysOf(rounds, 100),
     a |-> KeyOf(10 * i + 7), b |-> KeyOf(10 * i + 8), t |-> KeyOf(10 * i + 9)]
MgSigOf(i, rows, width) ==
    [ss |-> [r \in 1..rows |-> KeysOf(width, 16 * i + 4 * r)], cc |-> KeyOf(110 + i)]

\* the RctSigPrunable of a transaction of the given type and counts, with one
\* bulletproof an output
PrunableOf(rct_type, inputs, outputs, mixin) ==
    RctSigPrunable(
        IF is_rct_bp(rct_type) THEN <<>> ELSE [i \in 1..outputs |-> RangeSigOf(i)],
        IF is_rct_bp(rct_type) THEN [i \in 1..outputs |-> BulletproofOf(i, mixin)]
        ELSE <<>>,
        [i \in 1..(IF rct_type = "Full" THEN 1 ELSE inputs) |->
            MgSigOf(i, mixin + 1, IF rct_type = "Full" THEN 1 + inputs ELSE 2)],
        IF is_rct_bp(rct_type) THEN KeysOf(inputs, 0) ELSE <<>>)

\* the lengths (type, inputs, outputs, mixin) imply for an RctSigBase
BaseShaped(base, ctx) ==
    /\ base.rct_type = ctx.rct_type
    /\ Len(base.pseudo_outs) = (IF ctx.rct_type = "Simple" THEN ctx.inputs ELSE 0)
    /\ Len(base.ecdh_info) = ctx.outputs
    /\ Len(base.out_pk) = ctx.outputs

\* every ecdh_info of the base is of the variant of its type
EcdhOfType(base) ==
    \A i \in 1..Len(base.ecdh_info) :
        base.ecdh_info[i].variant = EcdhVariantOf(base.rct_type)

\* the shapes (type, inputs, outputs, mixin) imply for an RctSigPrunable
PrunableShaped(prunable, ctx) ==
    /\ ctx.rct_type # "Null"
    /\ Len(prunable.range_sigs) = (IF is_rct_bp(ctx.rct_type) THEN 0 ELSE ctx.outputs)
    /\ ~is_rct_bp(ctx.rct_type) => prunable.bulletproofs = <<>>
    /\ Len(prunable.MGs) = (IF ctx.rct_type = "Full" THEN 1 ELSE ctx.inputs)
    /\ \A i \in 1..Len(prunable.MGs) :
          /\ Len(prunable.MGs[i].ss) = ctx.mixin + 1
          /\ \A r \in 1..Len(prunable.MGs[i].ss) :
                Len(prunable.MGs[i].ss[r])
                    = (IF ctx.rct_type = "Full" THEN 1 + ctx.inputs ELSE 2)
    /\ Len(prunable.pseudo_outs) = (IF is_rct_bp(ctx.rct_type) THEN ctx.inputs ELSE 0)

\* RctType
EncodeRctType ==
    /\ rop = "start"
    /\ \E t \in RctTypes :
        /\ rct' = t
        /\ rbuf' = RctType_consensus_encode(t)
        /\ rret' = Ok(NoVal)
    /\ rctx' = NoContext
    /\ rhow' = "none"
    /\ rop' = "RctType::consensus_encode"
    /\ UNCHANGED <<avars, kvars>>

DecodeRctType(b, h) ==
    /\ rbuf' = b
    /\ rhow' = h
    /\ rret' = RctType_consensus_decode(b, 0)
    /\ rop' = "RctType::consensus_decode"
    /\ UNCHANGED <<rct, rctx, avars, kvars>>

DecodeRctTypeExact ==
    /\ rop = "RctType::consensus_encode"
    /\ DecodeRctType(rbuf, "exact")

DecodeRctTypeByte ==
    /\ rop = "RctType::consensus_encode"
    /\ \E b \in Byte : DecodeRctType(<<b>>, "byte")

DecodeRctTypeEmpty ==
    /\ rop = "RctType::consensus_encode"
    /\ DecodeRctType(<<>>, "truncated")

\* RctSigBase
NewBase ==
    /\ rop = "start"
    /\ \E t \in RctTypes, inputs \in 0..MaxInputs, outputs \in 0..MaxOutputs,
          fee \in TxnFees, variant \in EcdhVariants :
        /\ rct' = BaseOf(t, inputs, outputs, fee, variant)
        /\ rctx' = Context(t, inputs, outputs, 0)
    /\ rbuf' = <<>>
    /\ rhow' = "none"
    /\ rop' = "RctSigBase"
    /\ rret' = NoRet
    /\ UNCHANGED <<avars, kvars>>

EncodeBase ==
    /\ rop = "RctSigBase"
    /\ rbuf' = RctSigBase_consensus_encode(rct)
    /\ rret' = Ok(NoVal)
    /\ rop' = "RctSigBase::consensus_encode"
    /\ UNCHANGED <<rct, rctx, rhow, avars, kvars>>

HashBase ==
    /\ rop = "RctSigBase::consensus_encode"
    /\ rret' = Ok(RctSigBase_hash(rct))
    /\ rop' = "RctSigBase::hash"
    /\ UNCHANGED <<rct, rctx, rbuf, rhow, avars, kvars>>

DecodeBase(b, h, inputs, outputs) ==
    /\ rbuf' = b
    /\ rhow' = h
    /\ rctx' = [rctx EXCEPT !.inputs = inputs, !.outputs = outputs]
    /\ rret' = RctSigBase_consensus_decode(b, 0, inputs, outputs)
    /\ rop' = "RctSigBase::consensus_decode"
    /\ UNCHANGED <<rct, avars, kvars>>

DecodeBaseExact ==
    /\ rop = "RctSigBase::consensus_encode"
    /\ DecodeBase(rbuf, "exact", rctx.inputs, rctx.outputs)

DecodeBaseTruncated ==
    /\ rop = "RctSigBase::consensus_encode"
    /\ \E n \in 0..(Len(rbuf) - 1) :
        DecodeBase(SubSeq(rbuf, 1, n), "truncated", rctx.inputs, rctx.outputs)

DecodeBaseExtended ==
    /\ rop = "RctSigBase::consensus_encode"
    /\ DecodeBase(rbuf \o KeyOf(120), "extended", rctx.inputs, rctx.outputs)

\* the encoding with another first byte
DecodeBaseTag ==
    /\ rop = "RctSigBase::consensus_encode"
    /\ \E tag \in RctTags \ {rbuf[1]} :
        DecodeBase(<<tag>> \o Tail(rbuf), "tag", rctx.inputs, rctx.outputs)

\* the encoding read for other counts than those of the value
DecodeBaseCounts ==
    /\ rop = "RctSigBase::consensus_encode"
    /\ \E inputs \in 0..MaxInputs, outputs \in 0..MaxOutputs :
        /\ <<inputs, outputs>> # <<rctx.inputs, rctx.outputs>>
        /\ DecodeBase(rbuf, "counts", inputs, outputs)

\* RctSigPrunable
NewPrunable ==
    /\ rop = "start"
    /\ \E t \in NonNullTypes, inputs \in 0..MaxInputs, outputs \in 0..MaxOutputs,
          mixin \in 0..MaxMixin :
        /\ rct' = PrunableOf(t, inputs, outputs, mixin)
        /\ rctx' = Context(t, inputs, outputs, mixin)
    /\ rbuf' = <<>>
    /\ rhow' = "none"
    /\ rop' = "RctSigPrunable"
    /\ rret' = NoRet
    /\ UNCHANGED <<avars, kvars>>

\* the value is handed to the encoder with another type than its own
PairType ==
    /\ rop = "RctSigPrunable"
    /\ rhow = "none"
    /\ \E t \in RctTypes \ {rctx.rct_type} :
        rctx' = [rctx EXCEPT !.rct_type = t]
    /\ rhow' = "paired"
    /\ UNCHANGED <<rct, rbuf, rop, rret, avars, kvars>>

EncodePrunable ==
    /\ rop = "RctSigPrunable"
    /\ rret' = RctSigPrunable_consensus_encode(rct, rctx.rct_type)
    /\ rbuf' = (IF IsOk(rret') THEN rret'.val ELSE <<>>)
    /\ rop' = "RctSigPrunable::consensus_encode"
    /\ UNCHANGED <<rct, rctx, rhow, avars, kvars>>

DecodePrunable(b, h, t) ==
    /\ rbuf' = b
    /\ rhow' = h
    /\ rctx' = [rctx EXCEPT !.rct_type = t]
    /\ rret' = RctSigPrunable_consensus_decode(b, 0, t, rctx.inputs, rctx.outputs,
                                               rctx.mixin)
    /\ rop' = "RctSigPrunable::consensus_decode"
    /\ UNCHANGED <<rct, avars, kvars>>

DecodePrunableExact ==
    /\ rop = "RctSigPrunable::consensus_encode"
    /\ DecodePrunable(rbuf, "exact", rctx.rct_type)

DecodePrunableTruncated ==
    /\ rop = "RctSigPrunable::consensus_encode"
    /\ PrunableShaped(rct, rctx)
    /\ \E n \in 0..(Len(rbuf) - 1) :
        DecodePrunable(SubSeq(rbuf, 1, n), "truncated", rctx.rct_type)

\* the encoding read as that of another type
DecodePrunableType ==
    /\ rop = "RctSigPrunable::consensus_encode"
    /\ PrunableShaped(rct, rctx)
    /\ \E t \in RctTypes \ {rctx.rct_type} :
        DecodePrunable(rbuf, "type", t)

\* the encoding read for other counts than those of the value
DecodePrunableCounts ==
    /\ rop = "RctSigPrunable::consensus_encode"
    /\ PrunableShaped(rct, rctx)
    /\ \E inputs \in 0..MaxInputs, outputs \in 0..MaxOutputs, mixin \in 0..MaxMixin :
        /\ <<inputs, outputs, mixin>> # <<rctx.inputs, rctx.outputs, rctx.mixin>>
        /\ rctx' = Context(rctx.rct_type, inputs, outputs, mixin)
        /\ rret' = RctSigPrunable_consensus_decode(rbuf, 0, rctx.rct_type, inputs,
                                                   outputs, mixin)
    /\ rhow' = "counts"
    /\ rop' = "RctSigPrunable::consensus_decode"
    /\ UNCHANGED <<rct, rbuf, avars, kvars>>

\* struct RctSig: the base part and the prunable part of one signature
RctSig(sig, p) == [sig |-> sig, p |-> p]

\* the two parts of a signature written to one buffer, the base part first,
\* the prunable part under the type of the base
EncodeSig ==
    /\ rop = "start"
    /\ \E t \in NonNullTypes, inputs \in 0..MaxInputs, outputs \in 0..MaxOutputs,
          mixin \in 0..MaxMixin, fee \in TxnFees :
        LET sig == BaseOf(t, inputs, outputs, fee, EcdhVariantOf(t))
            p == PrunableOf(t, inputs, outputs, mixin)
        IN /\ rct' = RctSig(sig, p)
           /\ rctx' = Context(t, inputs, outputs, mixin)
           /\ rbuf' = RctSigBase_consensus_encode(sig)
                        \o RctSigPrunable_consensus_encode(p, sig.rct_type).val
    /\ rhow' = "none"
    /\ rret' = Ok(NoVal)
    /\ rop' = "RctSig::consensus_encode"
    /\ UNCHANGED <<avars, kvars>>

\* the base part read from the head of the buffer
DecodeSigBase ==
    /\ rop = "RctSig::consensus_encode"
    /\ rret' = RctSigBase_consensus_decode(rbuf, 0, rctx.inputs, rctx.outputs)
    /\ rop' = "RctSig::decode_sig"
    /\ UNCHANGED <<rct, rctx, rbuf, rhow, avars, kvars>>

\* the prunable part read from the same cursor, where the base part left it,
\* under the type of the decoded base
DecodeSigPrunable ==
    /\ rop = "RctSig::decode_sig"
    /\ IsOk(rret)
    /\ rret.val.some
    /\ rret' = RctSigPrunable_consensus_decode(rbuf, rret.pos, rret.val.value.rct_type,
                                               rctx.inputs, rctx.outputs, rctx.mixin)
    /\ rop' = "RctSig::decode_p"
    /\ UNCHANGED <<rct, rctx, rbuf, rhow, avars, kvars>>

RctNext ==
    \/ EncodeRctType
    \/ DecodeRctTypeExact
    \/ DecodeRctTypeByte
    \/ DecodeRctTypeEmpty
    \/ NewBase
    \/ EncodeBase
    \/ HashBase
    \/ DecodeBaseExact
    \/ DecodeBaseTruncated
    \/ DecodeBaseExtended
    \/ DecodeBaseTag
    \/ DecodeBaseCounts
    \/ NewPrunable
    \/ PairType
    \/ EncodePrunable
    \/ DecodePrunableExact
    \/ DecodePrunableTruncated
    \/ DecodePrunableType
    \/ DecodePrunableCounts
    \/ EncodeSig
    \/ DecodeSigBase
    \/ DecodeSigPrunable

RctSpec == Init /\ [][RctNext]_vars

(***************************************************************************)
(* Properties of the address operations (specification Spec).              *)
(***************************************************************************)
\* the magic byte table as the documentation states it
MagicTable ==
    [n \in Network |->
        CASE n = "Mainnet" -> [Standard |-> 18, Integrated |-> 19, SubAddress |-> 42]
          [] n = "Testnet" -> [Standard |-> 53, Integrated |-> 54, SubAddress |-> 63]
          [] n = "Stagenet" -> [Standard |-> 24, Integrated |-> 25, SubAddress |-> 36]]
MagicBytes == {MagicTable[n][k] : n \in Network, k \in AddressKind}
\* address types of every kind, Integrated with more than one payment id
AddressTypes ==
    {Standard, SubAddress} \cup {Integrated(pid) : pid \in PaymentIds \cup {Zeros(PaymentIdLen)}}
\* the byte length of the encoding of an address of type t
EncodedLen(t) ==
    1 + KeyLen + KeyLen + (IF t.kind = "Integrated" THEN PaymentIdLen ELSE 0) + ChecksumLen

\* C1: Address::from_bytes applied to a.as_bytes() returns Ok(a): the same
\* network, address type (payment id included), spend key and view key.
C1_FromBytesAsBytes ==
    (op = "from_bytes" /\ how = "exact") =>
        /\ bytes = Address_as_bytes(addr)
        /\ ret = Ok(addr)
        /\ ret.val.network = addr.network
        /\ ret.val.addr_type = addr.addr_type
        /\ ret.val.public_spend = addr.public_spend
        /\ ret.val.public_view = addr.public_view

\* an Integrated address of Stagenet has been encoded and decoded
C1_Witness ==
    /\ op = "from_bytes"
    /\ how = "exact"
    /\ addr.network = "Stagenet"
    /\ addr.addr_type.kind = "Integrated"
    /\ addr.addr_type.payment_id \in PaymentIds
    /\ IsOk(ret)

\* C2 (as stated): from_bytes applied to a.as_bytes() with one bit flipped
\* returns Err(InvalidChecksum) or Err(InvalidMagicByte), the latter of the
\* address or of the network; it returns no Ok and ends in no other outcome.
C2_BitFlipRejected ==
    (op = "from_bytes" /\ how = "flip") =>
        /\ IsErr(ret)
        /\ \/ ret.err = ErrKind("InvalidChecksum")
           \/ ret.err = ErrKind("InvalidMagicByte")
           \/ ret.err = ErrWrap("Network", ErrKind("InvalidMagicByte"))

\* C3 (as stated): Address::from_bytes and AddressType::from_slice return Ok
\* or a typed Err on every byte sequence; neither aborts.
C3_NoAbort ==
    (op \in {"from_bytes", "from_slice"}) => (IsOk(ret) \/ IsErr(ret))

C5_AddressInvalidMagicByte ==
    (op = "from_bytes" /\ bytes # <<>> /\ bytes[1] \notin MagicBytes) =>
        ret = Err(ErrKind("InvalidMagicByte"))

\* C5 (amended): a first byte that is none of the nine magic bytes makes
\* Address::from_bytes fail with Error::Network holding the InvalidMagicByte
\* of network.rs, whatever the remaining bytes are; this is not the variant
\* InvalidMagicByte of the address error that AddressType::from_slice gives.
C5_NetworkInvalidMagicByte ==
    (op = "from_bytes" /\ bytes # <<>> /\ bytes[1] \notin MagicBytes) =>
        /\ ret = Err([kind |-> "Network", inner |-> "InvalidMagicByte"])
        /\ ret # Err(ErrKind("InvalidMagicByte"))

\* a whole encoding behind a first byte of no network has been decoded
C5_Witness ==
    /\ op = "from_bytes"
    /\ how = "magic"
    /\ Len(bytes) > 1
    /\ bytes[1] \notin MagicBytes
    /\ IsErr(ret)

\* C6: a.as_bytes() is the magic byte, the 32 bytes of the spend key, the 32
\* bytes of the view key, the 8 bytes of the payment id if and only if the
\* type is Integrated, and the first 4 bytes of the Keccak-256 of all that
\* precedes; 69 bytes for Standard and SubAddress, 77 for Integrated.
C6_AsBytesLayout ==
    (op = "as_bytes") =>
        LET n == Len(bytes)
            integrated == addr.addr_type.kind = "Integrated"
        IN /\ n = IF integrated THEN 77 ELSE 69
           /\ bytes[1] = MagicTable[addr.network][addr.addr_type.kind]
           /\ SubSeq(bytes, 2, 33) = addr.public_spend.point
           /\ SubSeq(bytes, 34, 65) = addr.public_view.point
           /\ integrated => SubSeq(bytes, 66, 73) = addr.addr_type.payment_id
           /\ SubSeq(bytes, n - 3, n) = SubSeq(keccak_256(SubSeq(bytes, 1, n - 4)), 1, 4)

\* an Integrated address has been encoded, its two keys different
C6_Witness ==
    /\ op = "as_bytes"
    /\ addr.addr_type.kind = "Integrated"
    /\ addr.public_spend # addr.public_view
    /\ Len(bytes) = 77

\* C7: Address::from_str(s) is the base58 decoding of s followed by
\* Address::from_bytes: a base58 error is returned wrapped in Error::Base58,
\* otherwise the result is from_bytes of the decoded bytes; from_str of
\* a.to_string() is Ok(a); and an accepted s that is the text of exactly the
\* bytes of an address is the to_string of the address returned.
C7_FromStr ==
    (op = "from_str") =>
        LET decoded == base58_decode(text)
        IN /\ ~IsOk(decoded) =>
                 /\ IsErr(decoded)
                 /\ ret = Err([kind |-> "Base58", inner |-> decoded.err.kind])
           /\ IsOk(decoded) => ret = Address_from_bytes(decoded.val)
           /\ how = "exact" => (text = Address_to_string(addr) /\ ret = Ok(addr))
           /\ (IsOk(ret) /\ Len(decoded.val) = EncodedLen(ret.val.addr_type)) =>
                 Address_to_string(ret.val) = text

\* the text of a SubAddress has been parsed back to the address
C7_Witness ==
    /\ op = "from_str"
    /\ how = "exact"
    /\ addr.addr_type.kind = "SubAddress"
    /\ ret = Ok(addr)
    /\ Address_to_string(ret.val) = text

(***************************************************************************)
(* Properties of the key operations (specification KeySpec).               *)
(***************************************************************************)
\* d is the 32 byte little-endian form of a value below the group order
ScalarBelowOrder(d) == \E v \in 0..(GroupOrder - 1) : d = LEBytes(v, 32)
\* <<x, y>> satisfies the curve equation -x^2 + y^2 = 1 + d x^2 y^2
OnCurve(x, y) ==
    (y * y + FieldP * FieldP - x * x) % FieldP = (1 + EdwardsD * x * x * y * y) % FieldP
\* the 32 bytes d, bit 255 apart, are the y of some point of the curve
HasPoint(d) ==
    \E x \in 0..(FieldP - 1) :
        OnCurve(x, LEMod([i \in 1..32 |-> IF i = 32 THEN d[i] % 128 ELSE d[i]], FieldP))
\* the operands of the last PrivateKey + PrivateKey
AddLeft == PrivateKey(SubSeq(kcall.a, 1, 32))
AddRight == PrivateKey(SubSeq(kcall.a, 33, 64))

\* C8: for valid private keys a and b, PublicKey::from_private_key(a + b) is
\* PublicKey::from_private_key(a) + PublicKey::from_private_key(b), the
\* first + of scalars modulo the group order, the second of points.
C8_AddHomomorphism ==
    (/\ kcall.fn = "PrivateKey + PrivateKey"
     /\ ScalarBelowOrder(AddLeft.scalar)
     /\ ScalarBelowOrder(AddRight.scalar)) =>
        /\ IsOk(kret)
        /\ ScalarValue(kret.val.scalar)
             = (ScalarValue(AddLeft.scalar) + ScalarValue(AddRight.scalar)) % GroupOrder
        /\ PublicKey_add(PublicKey_from_private_key(AddLeft),
                         PublicKey_from_private_key(AddRight))
             = Ok(PublicKey_from_private_key(kret.val))

\* two valid private keys, different and not zero, have been added and their
\* sum has wrapped around the group order
C8_Witness ==
    /\ kcall.fn = "PrivateKey + PrivateKey"
    /\ ScalarBelowOrder(AddLeft.scalar)
    /\ ScalarBelowOrder(AddRight.scalar)
    /\ ScalarValue(AddLeft.scalar) > 0
    /\ ScalarValue(AddRight.scalar) > ScalarValue(AddLeft.scalar)
    /\ ScalarValue(AddLeft.scalar) + ScalarValue(AddRight.scalar) > GroupOrder
    /\ IsOk(kret)

\* C9: PrivateKey::from_slice and PublicKey::from_slice give
\* Err(InvalidLength) for every input not 32 bytes long, whatever it holds;
\* for 32 bytes, Err(NotCanonicalScalar) when the value is not below the
\* group order, respectively Err(InvalidPoint) when the bytes decompress to no
\* point of the curve; and otherwise Ok of a key whose bytes are the input.
C9_FromSlice ==
    /\ (kcall.fn = "PrivateKey::from_slice") =>
          kret = IF Len(kcall.a) # 32 THEN Err(ErrKind("InvalidLength"))
                 ELSE IF ~ScalarBelowOrder(kcall.a) THEN Err(ErrKind("NotCanonicalScalar"))
                 ELSE Ok([scalar |-> kcall.a])
    /\ (kcall.fn = "PublicKey::from_slice") =>
          kret = IF Len(kcall.a) # 32 THEN Err(ErrKind("InvalidLength"))
                 ELSE IF ~HasPoint(kcall.a) THEN Err(ErrKind("InvalidPoint"))
                 ELSE Ok([point |-> kcall.a])

\* 32 bytes that are no point of the curve have been refused as a PublicKey
C9_Witness ==
    /\ kcall.fn = "PublicKey::from_slice"
    /\ Len(kcall.a) = 32
    /\ ~HasPoint(kcall.a)
    /\ kret = Err(ErrKind("InvalidPoint"))

\* C10 (as stated): every key reachable through the public construction
\* paths and the arithmetic operators holds a canonical scalar, respectively
\* bytes that decompress to a point, and no operation aborts in
\* PublicKey::point().
C10_KeysValid ==
    /\ (key.sort = "PrivateKey") => ScalarBelowOrder(key.data)
    /\ (key.sort = "PublicKey") => HasPoint(key.data)
    /\ ~IsPanic(kret)

\* the little-endian value of the bytes d modulo m, summed from the low byte
RECURSIVE LESum(_, _, _, _)
LESum(d, i, weight, m) ==
    IF i > Len(d) THEN 0
    ELSE (d[i] * weight + LESum(d, i + 1, (weight * 256) % m, m)) % m

\* C11: Hash::hash_to_scalar(bytes) returns, for every byte string, the
\* as_scalar of Hash::hash(bytes): the 32 digest bytes as a little-endian
\* integer reduced modulo the group order, a canonical PrivateKey; and the
\* default Hashable::hash_to_scalar of an object is as_scalar of its hash().
C11_HashToScalar ==
    /\ (kcall.fn = "Hash::hash_to_scalar") =>
          /\ IsOk(kret)
          /\ kret.val = Hash_as_scalar(Hash_hash(kcall.a))
          /\ kret.val.scalar = LEBytes(LESum(keccak_256(kcall.a), 1, 1, GroupOrder), 32)
          /\ ScalarBelowOrder(kret.val.scalar)
    /\ (kcall.fn = "Hashable::hash_to_scalar") =>
          /\ IsOk(kret)
          /\ kret.val = Hash_as_scalar(keccak_256(kcall.a))
          /\ kret.val.scalar = LEBytes(LESum(keccak_256(kcall.a), 1, 1, GroupOrder), 32)
          /\ ScalarBelowOrder(kret.val.scalar)

\* the empty byte string has been hashed to a scalar
C11_Witness ==
    /\ kcall.fn = "Hash::hash_to_scalar"
    /\ kcall.a = <<>>
    /\ IsOk(kret)
    /\ key = Private(kret.val)

(***************************************************************************)
(* Properties of the RingCT codec, under RctSpec.                          *)
(***************************************************************************)
\* the type of every tag byte, tag 0 first
RctTypeTable == <<"Null", "Full", "Simple", "Bulletproof", "Bulletproof2">>

\* C12: decoding an RctType reads one byte: 0..4 are Null, Full, Simple,
\* Bulletproof, Bulletproof2 and every other byte is UnknownRctType; encoding
\* writes that one byte; decode(encode(t)) = t for every type and
\* encode(decode(b)) = b for every byte 0..4.
C12_RctTypeCodec ==
    /\ (rop = "RctType::consensus_decode" /\ rhow = "byte") =>
          /\ rret.pos = 1
          /\ rbuf[1] \in 0..4 =>
                /\ IsOk(rret)
                /\ rret.val = RctTypeTable[rbuf[1] + 1]
                /\ RctType_consensus_encode(rret.val) = rbuf
          /\ rbuf[1] \notin 0..4 =>
                /\ IsErr(rret)
                /\ rret.err = ErrKind("UnknownRctType")
    /\ rop = "RctType::consensus_encode" =>
          /\ IsOk(rret)
          /\ Len(rbuf) = 1
          /\ rbuf[1] \in 0..4
          /\ RctTypeTable[rbuf[1] + 1] = rct
    /\ (rop = "RctType::consensus_decode" /\ rhow = "exact") =>
          /\ IsOk(rret)
          /\ rret.val = rct
          /\ rret.pos = 1

\* the byte 255 has been decoded
C12_Witness ==
    /\ rop = "RctType::consensus_decode"
    /\ rhow = "byte"
    /\ rbuf = <<255>>
    /\ IsErr(rret)

\* C13: the Null type cuts both decoders short.  RctSigBase::consensus_decode
\* returns Ok(None) after the tag byte alone, whatever the counts and the
\* bytes that follow; RctSigPrunable::consensus_decode with Null returns
\* Ok(None) and reads no byte; every successful decode of another type
\* returns Some.
C13_NullShortCircuit ==
    /\ (rop = "RctSigBase::consensus_decode" /\ Len(rbuf) >= 1) =>
          /\ rbuf[1] = 0 =>
                /\ IsOk(rret)
                /\ ~rret.val.some
                /\ rret.pos = 1
          /\ (rbuf[1] # 0 /\ IsOk(rret)) => rret.val.some
    /\ rop = "RctSigPrunable::consensus_decode" =>
          /\ rctx.rct_type = "Null" =>
                /\ IsOk(rret)
                /\ ~rret.val.some
                /\ rret.pos = 0
          /\ (rctx.rct_type # "Null" /\ IsOk(rret)) => rret.val.some

\* a Null tag followed by the fields of another type has been decoded for
\* the largest counts
C13_Witness ==
    /\ rop = "RctSigBase::consensus_decode"
    /\ rhow = "tag"
    /\ rbuf[1] = 0
    /\ Len(rbuf) > 1
    /\ rctx.inputs = MaxInputs
    /\ rctx.outputs = MaxOutputs
    /\ IsOk(rret)
    /\ ~rret.val.some

\* C14 as stated: for every type, Null too, and every RctSigBase x of the
\* lengths implied by (inputs, outputs), decoding the encoding of x returns x.
C14_BaseRoundTrip ==
    (rop = "RctSigBase::consensus_decode" /\ rhow = "exact" /\ BaseShaped(rct, rctx)) =>
        /\ IsOk(rret)
        /\ rret.val.some
        /\ rret.val.value = rct

\* C14, amended: for every type but Null and every RctSigBase x of that type
\* with the lengths implied by (inputs, outputs) and ecdh_info of the variant
\* of the type, decoding the encoding of x returns Some(x) and reads all of
\* it; the encoding of a Null x is the tag byte alone and decodes to None.
C14_BaseRoundTripNonNull ==
    (rop = "RctSigBase::consensus_decode" /\ rhow = "exact" /\ BaseShaped(rct, rctx)) =>
        /\ rct.rct_type = "Null" =>
              /\ rbuf = <<0>>
              /\ IsOk(rret)
              /\ ~rret.val.some
        /\ (rct.rct_type # "Null" /\ EcdhOfType(rct)) =>
              /\ IsOk(rret)
              /\ rret.val.some
              /\ rret.val.value = rct
              /\ rret.pos = Len(rbuf)

\* a Simple base of the largest counts and a three byte fee has come back
C14_Witness ==
    /\ rop = "RctSigBase::consensus_decode"
    /\ rhow = "exact"
    /\ rct.rct_type = "Simple"
    /\ rctx.inputs = MaxInputs
    /\ rctx.outputs = MaxOutputs
    /\ rct.txn_fee = 20000
    /\ IsOk(rret)
    /\ rret.val.some
    /\ rret.val.value = rct

\* C15: for every type but Null and every RctSigPrunable x whose range_sigs,
\* bulletproofs, MGs (count, rows, row width) and pseudo_outs have the shapes
\* implied by (type, inputs, outputs, mixin), decoding the bytes
\* x.consensus_encode(type) writes, under the same type and counts, returns
\* Some(x), all four fields equal.
C15_PrunableRoundTrip ==
    (rop = "RctSigPrunable::consensus_decode" /\ rhow = "exact"
        /\ PrunableShaped(rct, rctx)) =>
        /\ IsOk(rret)
        /\ rret.val.some
        /\ rret.val.value.range_sigs = rct.range_sigs
        /\ rret.val.value.bulletproofs = rct.bulletproofs
        /\ rret.val.value.MGs = rct.MGs
        /\ rret.val.value.pseudo_outs = rct.pseudo_outs
        /\ rret.pos = Len(rbuf)

\* a Bulletproof2 signature of the largest counts has come back
C15_Witness ==
    /\ rop = "RctSigPrunable::consensus_decode"
    /\ rhow = "exact"
    /\ rctx = Context("Bulletproof2", MaxInputs, MaxOutputs, MaxMixin)
    /\ Len(rct.bulletproofs) = MaxOutputs
    /\ Len(rct.MGs) = MaxInputs
    /\ IsOk(rret)
    /\ rret.val.some
    /\ rret.val.value = rct

\* C16: RctSigPrunable::consensus_encode returns an error when the element
\* counts of the value are not those of the type it is paired with (range_sigs
\* or an MG row of the wrong width under a Bulletproof type, bulletproofs
\* under Full or Simple).
C16_EncodeRejectsInconsistent ==
    (rop = "RctSigPrunable::consensus_encode" /\ rctx.rct_type # "Null"
        /\ ~PrunableShaped(rct, rctx)) =>
        IsErr(rret)

\* C17: RctSigBase::hash(x) is the Keccak-256 of exactly the bytes
\* x.consensus_encode writes (tag, fee, pseudo_outs only if Simple, ecdh
\* entries, out_pk), so a base with the same encoding (one that differs in
\* the pseudo_outs a type other than Simple leaves out) has the same hash.
C17_BaseHash ==
    rop = "RctSigBase::hash" =>
        /\ IsOk(rret)
        /\ rbuf = RctSigBase_consensus_encode(rct)
        /\ rret.val = keccak_256(rbuf)
        /\ rct.rct_type # "Simple" =>
              LET other == [rct EXCEPT !.pseudo_outs = KeysOf(1, 0)]
              IN /\ RctSigBase_consensus_encode(other) = rbuf
                 /\ RctSigBase_hash(other) = rret.val

\* a Simple base of the largest counts has been hashed
C17_Witness ==
    /\ rop = "RctSigBase::hash"
    /\ rct.rct_type = "Simple"
    /\ Len(rct.pseudo_outs) = MaxInputs
    /\ Len(rct.out_pk) = MaxOutputs
    /\ IsOk(rret)
    /\ rret.val = keccak_256(rbuf)

\* the number of bytes of the VarInt that starts after pos bytes of buf, 0
\* when buf ends within it
VarIntLenAt(buf, pos) ==
    LET ends == {k \in 1..(Len(buf) - pos) : buf[pos + k] < 128}
    IN IF ends = {} THEN 0 ELSE CHOOSE k \in ends : \A l \in ends : k <= l

\* the width of one ecdh_info entry under a tag byte
EcdhLen(tag) == IF tag = 4 THEN Hash8Len ELSE 2 * KeyLen

\* the number of bytes an RctSigBase of the tag and fee at the head of buf
\* takes for the counts; more than buf holds when buf ends within the fee
BaseNeeds(buf, inputs, outputs) ==
    IF buf = <<>> THEN 1
    ELSE IF buf[1] = 0 THEN 1
    ELSE IF VarIntLenAt(buf, 1) = 0 THEN Len(buf) + 1
    ELSE 1 + VarIntLenAt(buf, 1)
           + (IF buf[1] = 2 THEN KeyLen * inputs ELSE 0)
           + EcdhLen(buf[1]) * outputs
           + KeyLen * outputs

\* C18: no partial results.  When the cursor runs out anywhere in
\* RctSigBase::consensus_decode or RctSigPrunable::consensus_decode (in the
\* fee, a pseudo-out, an ecdh entry, an out_pk, a range sig, a bulletproof,
\* an MG row key or cc) the call returns Err; an Ok(Some(..)) holds the
\* numbers of elements the supplied counts require, and Ok(None) is returned
\* for the Null type alone.
C18_NoPartialResults ==
    /\ rop = "RctSigBase::consensus_decode" =>
          /\ Len(rbuf) < BaseNeeds(rbuf, rctx.inputs, rctx.outputs) => IsErr(rret)
          /\ (IsOk(rret) /\ rret.val.some) =>
                /\ Len(rret.val.value.pseudo_outs)
                      = (IF rret.val.value.rct_type = "Simple" THEN rctx.inputs ELSE 0)
                /\ Len(rret.val.value.ecdh_info) = rctx.outputs
                /\ Len(rret.val.value.out_pk) = rctx.outputs
          /\ (IsOk(rret) /\ ~rret.val.some) => rbuf[1] = 0
    /\ rop = "RctSigPrunable::consensus_decode" =>
          /\ rhow = "truncated" => IsErr(rret)
          /\ (IsOk(rret) /\ rret.val.some) =>
                /\ rctx.rct_type # "Null"
                /\ PrunableShaped(rret.val.value, rctx)
          /\ (IsOk(rret) /\ ~rret.val.some) => rctx.rct_type = "Null"

\* the encoding of a Simple base of the largest counts, less its last byte,
\* has been refused
C18_Witness ==
    /\ rop = "RctSigBase::consensus_decode"
    /\ rhow = "truncated"
    /\ rbuf # <<>>
    /\ rbuf[1] = 2
    /\ rctx.inputs = MaxInputs
    /\ rctx.outputs = MaxOutputs
    /\ Len(rbuf) = BaseNeeds(rbuf, rctx.inputs, rctx.outputs) - 1
    /\ IsErr(rret)

\* the bytes of element i of a run of elements of width w after pos bytes
ElementAt(buf, pos, w, i) == SubSeq(buf, pos + w * (i - 1) + 1, pos + w * i)

\* C19: a successful RctSigBase::consensus_decode(d, inputs, outputs) of a
\* type other than Null has read, in this order, the tag, the fee VarInt,
\* inputs pseudo-out keys if and only if the type is Simple, outputs EcdhInfo
\* entries, and outputs CtKeys: pseudo_outs has inputs elements when Simple
\* and none otherwise, ecdh_info and out_pk have outputs elements each.
C19_BaseReadOrder ==
    (rop = "RctSigBase::consensus_decode" /\ IsOk(rret) /\ rret.val.some) =>
        LET x == rret.val.value
            tag == rbuf[1]
            afterFee == 1 + VarIntLenAt(rbuf, 1)
            pseudo == IF tag = 2 THEN rctx.inputs ELSE 0
            afterPseudo == afterFee + KeyLen * pseudo
            afterEcdh == afterPseudo + EcdhLen(tag) * rctx.outputs
        IN /\ tag \in 1..4
           /\ x.rct_type = RctTypeTable[tag + 1]
           /\ VarInt_encode(x.txn_fee) = SubSeq(rbuf, 2, afterFee)
           /\ Len(x.pseudo_outs) = pseudo
           /\ \A i \in 1..pseudo :
                 x.pseudo_outs[i] = ElementAt(rbuf, afterFee, KeyLen, i)
           /\ Len(x.ecdh_info) = rctx.outputs
           /\ \A i \in 1..rctx.outputs :
                 EcdhInfo_consensus_encode(x.ecdh_info[i])
                     = ElementAt(rbuf, afterPseudo, EcdhLen(tag), i)
           /\ Len(x.out_pk) = rctx.outputs
           /\ \A i \in 1..rctx.outputs :
                 x.out_pk[i].mask = ElementAt(rbuf, afterEcdh, KeyLen, i)
           /\ rret.pos = afterEcdh + KeyLen * rctx.outputs

\* a Simple encoding has been decoded for smaller counts than those of the
\* value it was written from
C19_Witness ==
    /\ rop = "RctSigBase::consensus_decode"
    /\ rhow = "counts"
    /\ rct.rct_type = "Simple"
    /\ Len(rct.pseudo_outs) = MaxInputs
    /\ rctx.inputs = 1
    /\ rctx.outputs = 1
    /\ IsOk(rret)
    /\ rret.val.some
    /\ Len(rret.val.value.pseudo_outs) = 1

\* C20: in every decoded RctSigBase every ecdh_info entry is the Bulletproof2
\* variant, one amount of 8 bytes, if and only if rct_type is Bulletproof2,
\* and the Standard variant, a mask of 32 bytes then an amount of 32 bytes,
\* for Full, Simple and Bulletproof; the entries of one base are all of one
\* variant, and take 8 or 64 bytes each.
C20_EcdhVariant ==
    (rop = "RctSigBase::consensus_decode" /\ IsOk(rret) /\ rret.val.some) =>
        LET x == rret.val.value
        IN /\ \A i \in 1..Len(x.ecdh_info) :
                 /\ x.ecdh_info[i].variant = "Bulletproof2" <=> x.rct_type = "Bulletproof2"
                 /\ x.ecdh_info[i].variant = "Standard"
                        <=> x.rct_type \in {"Full", "Simple", "Bulletproof"}
                 /\ x.ecdh_info[i].variant = "Bulletproof2" =>
                        /\ DOMAIN x.ecdh_info[i] = {"variant", "amount"}
                        /\ Len(x.ecdh_info[i].amount) = 8
                 /\ x.ecdh_info[i].variant = "Standard" =>
                        /\ DOMAIN x.ecdh_info[i] = {"variant", "mask", "amount"}
                        /\ Len(x.ecdh_info[i].mask) = 32
                        /\ Len(x.ecdh_info[i].amount) = 32
           /\ rret.pos - (1 + VarIntLenAt(rbuf, 1)) - KeyLen * Len(x.pseudo_outs)
                    - KeyLen * Len(x.out_pk)
                 = Len(x.ecdh_info)
                     * (IF x.rct_type = "Bulletproof2" THEN 8 ELSE 64)

\* a Bulletproof2 base of the largest number of outputs has been decoded
C20_Witness ==
    /\ rop = "RctSigBase::consensus_decode"
    /\ rhow = "exact"
    /\ IsOk(rret)
    /\ rret.val.some
    /\ rret.val.value.rct_type = "Bulletproof2"
    /\ Len(rret.val.value.ecdh_info) = MaxOutputs
    /\ \A i \in 1..MaxOutputs : rret.val.value.ecdh_info[i].variant = "Bulletproof2"

\* the number of MG signatures, and the width of their rows, for a context
MgElements(ctx) == IF ctx.rct_type = "Full" THEN 1 ELSE ctx.inputs
MgWidth(ctx) == IF ctx.rct_type = "Full" THEN 1 + ctx.inputs ELSE 2
\* the bytes of one MG signature: mixin + 1 rows of keys and cc
MgLen(ctx) == ((ctx.mixin + 1) * MgWidth(ctx) + 1) * KeyLen
\* the bytes of the pseudo_outs that close a prunable part
PseudoLen(ctx) == IF is_rct_bp(ctx.rct_type) THEN KeyLen * ctx.inputs ELSE 0
\* the number of bytes before the MG signatures of a decoded prunable part
\* that ends after last bytes
MgStart(ctx, last) == last - PseudoLen(ctx) - MgElements(ctx) * MgLen(ctx)

\* C21: in every successfully decoded RctSigPrunable there is 1 MG signature
\* when the type is Full and inputs of them otherwise; each has mixin + 1
\* rows; each row has 1 + inputs keys when Full and 2 otherwise; and the
\* rows of an MG signature are read before its one closing key cc.
C21_MgShape ==
    (rop = "RctSigPrunable::consensus_decode" /\ IsOk(rret) /\ rret.val.some) =>
        LET MGs == rret.val.value.MGs
            start == MgStart(rctx, rret.pos)
        IN /\ Len(MGs) = MgElements(rctx)
           /\ \A i \in 1..Len(MGs) :
                 /\ DOMAIN MGs[i] = {"ss", "cc"}
                 /\ Len(MGs[i].ss) = rctx.mixin + 1
                 /\ \A r \in 1..Len(MGs[i].ss) :
                       /\ Len(MGs[i].ss[r]) = MgWidth(rctx)
                       /\ \A c \in 1..Len(MGs[i].ss[r]) :
                             MGs[i].ss[r][c]
                                 = ElementAt(rbuf,
                                             start + (i - 1) * MgLen(rctx)
                                                 + (r - 1) * MgWidth(rctx) * KeyLen,
                                             KeyLen, c)
                 /\ MGs[i].cc = SubSeq(rbuf, start + i * MgLen(rctx) - KeyLen + 1,
                                       start + i * MgLen(rctx))

\* a Full signature of the largest counts has been decoded
C21_Witness ==
    /\ rop = "RctSigPrunable::consensus_decode"
    /\ rhow = "exact"
    /\ rctx = Context("Full", MaxInputs, MaxOutputs, MaxMixin)
    /\ IsOk(rret)
    /\ rret.val.some
    /\ Len(rret.val.value.MGs) = 1
    /\ Len(rret.val.value.MGs[1].ss) = MaxMixin + 1
    /\ Len(rret.val.value.MGs[1].ss[1]) = MaxInputs + 1

\* C22: in every successfully decoded RctSigPrunable the proof fields
\* exclude one another by type.  For Full and Simple, range_sigs has outputs
\* elements and bulletproofs and pseudo_outs are empty; for Bulletproof and
\* Bulletproof2, range_sigs is empty and pseudo_outs has inputs elements,
\* read last, after the bulletproofs and the MG signatures.
C22_ProofFields ==
    (rop = "RctSigPrunable::consensus_decode" /\ IsOk(rret) /\ rret.val.some) =>
        LET x == rret.val.value
        IN /\ ~is_rct_bp(rctx.rct_type) =>
                 /\ Len(x.range_sigs) = rctx.outputs
                 /\ \A i \in 1..rctx.outputs :
                       RangeSig_consensus_encode(x.range_sigs[i])
                           = ElementAt(rbuf, 0, RangeSigLen, i)
                 /\ x.bulletproofs = <<>>
                 /\ x.pseudo_outs = <<>>
                 /\ MgStart(rctx, rret.pos) = RangeSigLen * rctx.outputs
           /\ is_rct_bp(rctx.rct_type) =>
                 /\ x.range_sigs = <<>>
                 /\ Len(x.pseudo_outs) = rctx.inputs
                 /\ \A i \in 1..rctx.inputs :
                       x.pseudo_outs[i]
                           = ElementAt(rbuf, rret.pos - KeyLen * rctx.inputs, KeyLen, i)
                 /\ MgStart(rctx, rret.pos)
                       = Len(IF rctx.rct_type = "Bulletproof2"
                             THEN VecBulletproof_consensus_encode(x.bulletproofs)
                             ELSE u32_encode(Len(x.bulletproofs))
                                  \o Flatten([i \in 1..Len(x.bulletproofs) |->
                                         Bulletproof_consensus_encode(x.bulletproofs[i])]))

\* a Bulletproof signature of the largest counts has been decoded
C22_Witness ==
    /\ rop = "RctSigPrunable::consensus_decode"
    /\ rhow = "exact"
    /\ rctx = Context("Bulletproof", MaxInputs, MaxOutputs, MaxMixin)
    /\ IsOk(rret)
    /\ rret.val.some
    /\ Len(rret.val.value.pseudo_outs) = MaxInputs
    /\ Len(rret.val.value.bulletproofs) = MaxOutputs
    /\ rret.val.value.range_sigs = <<>>

\* the encodings of a list of bulletproofs, one after the other
BulletproofBytes(bps) ==
    Flatten([i \in 1..Len(bps) |-> Bulletproof_consensus_encode(bps[i])])

\* the little-endian value of the U32Len bytes at the head of buf
U32At(buf) == buf[1] + 256 * buf[2] + 65536 * buf[3] + 16777216 * buf[4]

KnownMagic(b) == Len(b) >= 1 /\ b[1] \in MagicBytes
\* the kind of address the magic byte b stands for
KindOfMagic(b) ==
    CHOOSE k \in AddressKind : \E n \in Network : MagicTable[n][k] = b
\* the number of bytes the checksum covers, by the magic byte
PayloadLen(b) == IF KindOfMagic(b[1]) = "Integrated" THEN 73 ELSE 65
\* the 32 bytes at lo are there and are a point of the curve
ValidKeyAt(b, lo) == Len(b) >= lo + KeyLen /\ HasPoint(Slice(b, lo, lo + KeyLen))
\* the 32 bytes at lo are there and are no point of the curve
InvalidKeyAt(b, lo) == Len(b) >= lo + KeyLen /\ ~HasPoint(Slice(b, lo, lo + KeyLen))
\* the 4 bytes after the payload are the first 4 of the digest of the payload
ChecksumMatches(b) ==
    /\ Len(b) >= PayloadLen(b) + ChecksumLen
    /\ Slice(b, PayloadLen(b), PayloadLen(b) + ChecksumLen)
         = Slice(keccak_256(Slice(b, 0, PayloadLen(b))), 0, ChecksumLen)

\* C24 (as stated): Address::from_bytes checks the magic byte, the spend key
\* at 1..33, the view key at 33..65 and the checksum in this order and
\* reports the first failure: an unknown magic byte gives the error of the
\* magic byte, a known magic byte with a spend or view slice that is no point
\* gives Err(InvalidFormat) whatever the checksum, and Err(InvalidChecksum)
\* is returned exactly when the magic byte is known, both keys are points and
\* the 4 bytes after the payload are not the digest of the payload.
C24_CheckOrder ==
    (op = "from_bytes" /\ Len(bytes) >= 1) =>
        /\ ~KnownMagic(bytes) =>
              /\ IsErr(ret)
              /\ ret.err.kind \notin {"InvalidFormat", "InvalidChecksum"}
        /\ (KnownMagic(bytes) /\ (InvalidKeyAt(bytes, 1) \/ InvalidKeyAt(bytes, 33))) =>
              ret = Err(ErrKind("InvalidFormat"))
        /\ (KnownMagic(bytes) /\ ValidKeyAt(bytes, 1) /\ ValidKeyAt(bytes, 33)
              /\ ~ChecksumMatches(bytes)) =>
              ret = Err(ErrKind("InvalidChecksum"))
        /\ ret = Err(ErrKind("InvalidChecksum")) =>
              /\ KnownMagic(bytes)
              /\ ValidKeyAt(bytes, 1)
              /\ ValidKeyAt(bytes, 33)
              /\ ~ChecksumMatches(bytes)

\* C27 (as stated): Address::from_bytes accepts only the canonical encoding:
\* whenever from_bytes(b) = Ok(a), a.as_bytes() = b, so b is 69 bytes long
\* (Standard, SubAddress) or 77 (Integrated) and no input with bytes after the
\* checksum is accepted.
C27_CanonicalOnly ==
    (op = "from_bytes" /\ IsOk(ret)) =>
        /\ Address_as_bytes(ret.val) = bytes
        /\ Len(bytes) = EncodedLen(ret.val.addr_type)

(***************************************************************************)
(* Properties of the address constructors from key pairs, under Spec.      *)
(***************************************************************************)
\* the KeyPair whose two scalars the last from_keypair call was made on
CalledKeyPair ==
    KeyPair(PrivateKey(Slice(bytes, 0, KeyLen)), PrivateKey(Slice(bytes, KeyLen, 2 * KeyLen)))
\* the public key P of the private key a: P = a * G, compressed
IsPublicKeyOf(pubkey, privkey) ==
    /\ HasPoint(pubkey.point)
    /\ Decompress(pubkey.point) = PointMul(privkey.scalar, Basepoint)

\* C28: ViewPair::from(k) keeps k.view and has the public key of k.spend as
\* its spend key; Address::from_keypair(n, k) and Address::from_viewpair(n,
\* ViewPair::from(k)) are the same address: Standard, on network n, with the
\* public keys of k.spend and k.view as spend and view keys.
C28_KeypairViewpair ==
    (op = "from_keypair") =>
        LET k == CalledKeyPair
            v == ViewPair_from(k)
        IN /\ k \in KeyPairs
           /\ v.view = k.view
           /\ IsPublicKeyOf(v.spend, k.spend)
           /\ ret = Ok(addr)
           /\ addr = Address_from_keypair(net, k)
           /\ ret.val = Address_from_viewpair(net, v)
           /\ addr.network = net
           /\ addr.addr_type = Standard
           /\ IsPublicKeyOf(addr.public_spend, k.spend)
           /\ IsPublicKeyOf(addr.public_view, k.view)

\* an address of Stagenet has been made of a key pair whose two private keys,
\* and whose two public keys, differ
C28_Witness ==
    /\ op = "from_keypair"
    /\ net = "Stagenet"
    /\ CalledKeyPair.view # CalledKeyPair.spend
    /\ addr.public_spend # addr.public_view
    /\ ret = Ok(addr)

(***************************************************************************)
(* Properties of decoding under other counts than those of the encoded     *)
(* value, under RctSpec.                                                   *)
(***************************************************************************)
\* the bytes of the proofs at the head of the encoding of the prunable part p
\* read under ctx: the framed bulletproofs of p, or outputs range signatures
ProofLen(p, ctx) ==
    IF ctx.rct_type = "Bulletproof2" THEN 1 + Len(BulletproofBytes(p.bulletproofs))
    ELSE IF ctx.rct_type = "Bulletproof" THEN U32Len + Len(BulletproofBytes(p.bulletproofs))
    ELSE RangeSigLen * ctx.outputs
\* the bytes a decode of the encoding of p under ctx takes
PrunableNeeds(p, ctx) ==
    ProofLen(p, ctx) + MgElements(ctx) * MgLen(ctx) + PseudoLen(ctx)

\* C25: decoding an RctSigBase or an RctSigPrunable under inputs, outputs or
\* mixin that differ from the counts the bytes were encoded with ends in one
\* of two outcomes: Ok with a value whose vectors have the lengths the
\* supplied counts give (the fields grouped otherwise than they were
\* written), when the bytes suffice for these counts, or the Err of the
\* exhausted cursor, when they do not.  The decoder reads no byte past the
\* end, does not abort and reports no error of its own for the mismatch.
C25_MismatchedCounts ==
    /\ (rop = "RctSigBase::consensus_decode" /\ rhow = "counts") =>
          LET needs == BaseNeeds(rbuf, rctx.inputs, rctx.outputs)
          IN /\ IsOk(rret) \/ IsErr(rret)
             /\ rret.pos <= Len(rbuf)
             /\ IsOk(rret) <=> needs <= Len(rbuf)
             /\ IsErr(rret) => rret.err = ErrKind("Io")
             /\ IsOk(rret) =>
                   /\ rret.pos = needs
                   /\ rret.val.some => BaseShaped(rret.val.value,
                                                  [rctx EXCEPT !.rct_type = rct.rct_type])
    /\ (rop = "RctSigPrunable::consensus_decode" /\ rhow = "counts") =>
          LET needs == PrunableNeeds(rct, rctx)
          IN /\ IsOk(rret) \/ IsErr(rret)
             /\ rret.pos <= Len(rbuf)
             /\ IsOk(rret) <=> needs <= Len(rbuf)
             /\ IsErr(rret) => rret.err = ErrKind("Io")
             /\ IsOk(rret) =>
                   /\ rret.pos = needs
                   /\ rret.val.some
                   /\ PrunableShaped(rret.val.value, rctx)

\* the encoding of a Simple prunable part of the largest counts has been
\* decoded for fewer inputs: Ok, of another value, with bytes left over
C25_Witness ==
    /\ rop = "RctSigPrunable::consensus_decode"
    /\ rhow = "counts"
    /\ rctx.rct_type = "Simple"
    /\ rctx.inputs < MaxInputs
    /\ Len(rct.MGs) = MaxInputs
    /\ IsOk(rret)
    /\ rret.val.some
    /\ rret.val.value # rct
    /\ Len(rret.val.value.MGs) = rctx.inputs
    /\ rret.pos < Len(rbuf)

(***************************************************************************)
(* Properties of the two parts of a signature in one buffer, under         *)
(* RctSpec.                                                                *)
(***************************************************************************)
\* the base part has been read from the buffer of the two parts
SigBaseRead(r) ==
    /\ IsOk(r)
    /\ r.val = Some(rct.sig)
    /\ r.pos = Len(RctSigBase_consensus_encode(rct.sig))
\* the prunable part has been read to the end of the buffer
SigPrunableRead(r) ==
    /\ IsOk(r)
    /\ r.val = Some(rct.p)
    /\ r.pos = Len(rbuf)

\* C26: decode consumes exactly what encode wrote.  With the encoding of a
\* shape-consistent base b followed by that of a prunable part p of the same
\* non-Null type in one cursor, decoding RctSigBase succeeds with b and
\* leaves the cursor at the first byte of the prunable part; decoding
\* RctSigPrunable from there succeeds with p and leaves the cursor at the
\* end: the bytes from the one position to the other are the encoding of p,
\* no byte is left over and none is read twice.
C26_DecodeConsumesEncode ==
    [][/\ rop' = "RctSig::decode_sig" =>
            /\ BaseShaped(rct.sig, rctx)
            /\ PrunableShaped(rct.p, rctx)
            /\ SigBaseRead(rret')
       /\ rop' = "RctSig::decode_p" =>
            /\ SigBaseRead(rret)
            /\ SigPrunableRead(rret')
            /\ SubSeq(rbuf, rret.pos + 1, rret'.pos)
                  = RctSigPrunable_consensus_encode(rct.p, rct.sig.rct_type).val]_vars

\* the two parts of a Bulletproof2 signature of the largest counts have been
\* read from one buffer
C26_Witness ==
    /\ rop = "RctSig::decode_p"
    /\ rctx = Context("Bulletproof2", MaxInputs, MaxOutputs, MaxMixin)
    /\ rct.sig.txn_fee = 20000
    /\ SigPrunableRead(rret)
    /\ Len(rbuf) > Len(RctSigBase_consensus_encode(rct.sig))

====
